---- MODULE Spec2Model ----
(***************************************************************************)
(* Planetary impact physics: unbindEnergy (C port and QB64 port).          *)
(*                                                                         *)
(* The programs compute in IEEE doubles.  The model computes in a decimal  *)
(* floating point of four significant digits (a mantissa of 1000..9999     *)
(* and a decimal exponent), with zero, +/-infinity and NaN, so that        *)
(* comparisons against the band thresholds, divisions by zero and the      *)
(* propagation of infinity behave as they do in the programs.              *)
(***************************************************************************)
EXTENDS Integers, Sequences, FiniteSets, TLC

(***************************************************************************)
(* Decimal floating point.                                                 *)
(***************************************************************************)
MantLo == 10 * 10 * 10
MantHi == 10 * MantLo

\* Op(x) and Op(x, y) with the arguments evaluated once, before Op.
Strict1(Op(_), x) == CHOOSE r \in {Op(a) : a \in {x}} : TRUE
Strict2(Op(_, _), x, y) == CHOOSE r \in {Op(a, b) : a \in {x}, b \in {y}} : TRUE

\* With(x, LAMBDA v : e) is e with v standing for the value of x.
With(x, Op(_)) == Strict1(Op, x)

Abs(n) == IF n < 0 THEN -n ELSE n
Sgn(n) == IF n < 0 THEN -1 ELSE IF n > 0 THEN 1 ELSE 0

Zero == [k |-> "fin", m |-> 0, e |-> 0]
Inf == [k |-> "inf", m |-> 1, e |-> 0]
NegInf == [k |-> "inf", m |-> -1, e |-> 0]
NaN == [k |-> "nan", m |-> 0, e |-> 0]

RECURSIVE NormV(_, _)
NormV(m, e) ==
    IF m = 0 THEN Zero
    ELSE IF Abs(m) < MantLo THEN NormV(m * 10, e - 1)
    ELSE IF Abs(m) >= 10 * MantHi THEN NormV(Sgn(m) * (Abs(m) \div 10), e + 1)
    ELSE IF Abs(m) >= MantHi THEN NormV(Sgn(m) * ((Abs(m) + 5) \div 10), e + 1)
    ELSE [k |-> "fin", m |-> m, e |-> e]

\* The number m * 10^e, rounded to four significant digits.
Norm(m, e) == Strict2(NormV, m, e)

Dec(m, e) == Norm(m, e)
One == Dec(1, 0)

IsNaN(a) == a.k = "nan"
IsInf(a) == a.k = "inf"
IsFin(a) == a.k = "fin"
IsZero(a) == IsFin(a) /\ a.m = 0

\* |a| < |b| for two non-zero, non-NaN numbers.
MagLt(a, b) ==
    IF IsInf(a) THEN FALSE
    ELSE IF IsInf(b) THEN TRUE
    ELSE a.e < b.e \/ (a.e = b.e /\ Abs(a.m) < Abs(b.m))

LtV(a, b) ==
    IF IsNaN(a) \/ IsNaN(b) THEN FALSE
    ELSE IF Sgn(a.m) # Sgn(b.m) THEN Sgn(a.m) < Sgn(b.m)
    ELSE IF Sgn(a.m) = 0 THEN FALSE
    ELSE IF Sgn(a.m) = 1 THEN MagLt(a, b)
    ELSE MagLt(b, a)

\* a < b as the operator < on doubles: FALSE when either side is NaN.
Lt(a, b) == Strict2(LtV, a, b)

LeV(a, b) == ~IsNaN(a) /\ ~IsNaN(b) /\ ~LtV(b, a)

\* a <= b and a >= b on doubles: FALSE when either side is NaN.
Le(a, b) == Strict2(LeV, a, b)
Ge(a, b) == Le(b, a)

(***************************************************************************)
(* Arithmetic on the decimal floating point, with the IEEE rules for zero, *)
(* infinity and NaN.                                                       *)
(***************************************************************************)
RECURSIVE Pow10(_)
Pow10(n) == IF n <= 0 THEN 1 ELSE 10 * Pow10(n - 1)

Neg(a) == [a EXCEPT !.m = -a.m]

MulV(a, b) ==
    IF IsNaN(a) \/ IsNaN(b) THEN NaN
    ELSE IF (IsInf(a) /\ IsZero(b)) \/ (IsZero(a) /\ IsInf(b)) THEN NaN
    ELSE IF IsInf(a) \/ IsInf(b)
    THEN (IF Sgn(a.m) * Sgn(b.m) > 0 THEN Inf ELSE NegInf)
    ELSE Norm(a.m * b.m, a.e + b.e)

Mul(a, b) == Strict2(MulV, a, b)

DivV(a, b) ==
    IF IsNaN(a) \/ IsNaN(b) THEN NaN
    ELSE IF (IsInf(a) /\ IsInf(b)) \/ (IsZero(a) /\ IsZero(b)) THEN NaN
    ELSE IF IsInf(a) THEN (IF Sgn(a.m) * Sgn(b.m) >= 0 THEN Inf ELSE NegInf)
    ELSE IF IsInf(b) THEN Zero
    ELSE IF IsZero(b) THEN (IF a.m > 0 THEN Inf ELSE NegInf)
    ELSE Norm(Sgn(a.m) * Sgn(b.m) * ((Abs(a.m) * MantHi * 10) \div Abs(b.m)),
              a.e - b.e - 5)

Div(a, b) == Strict2(DivV, a, b)

AddV(a, b) ==
    IF IsNaN(a) \/ IsNaN(b) THEN NaN
    ELSE IF IsInf(a) /\ IsInf(b) THEN (IF a.m = b.m THEN a ELSE NaN)
    ELSE IF IsInf(a) THEN a
    ELSE IF IsInf(b) THEN b
    ELSE IF IsZero(a) THEN b
    ELSE IF IsZero(b) THEN a
    ELSE IF a.e - b.e > 5 THEN a
    ELSE IF b.e - a.e > 5 THEN b
    ELSE IF a.e >= b.e THEN Norm(a.m * Pow10(a.e - b.e) + b.m, b.e)
    ELSE Norm(b.m * Pow10(b.e - a.e) + a.m, a.e)

Add(a, b) == Strict2(AddV, a, b)
Sub(a, b) == Strict2(AddV, a, Neg(b))

RECURSIVE RootSearch(_, _, _, _)
\* The largest k in lo..hi with k^p <= r (p is 2 or 3), by bisection.
RootSearch(r, p, lo, hi) ==
    IF lo >= hi THEN lo
    ELSE CHOOSE k \in
             {IF (IF p = 2 THEN mid * mid ELSE mid * mid * mid) <= r
              THEN RootSearch(r, p, mid, hi)
              ELSE RootSearch(r, p, lo, mid - 1) :
                 mid \in {(lo + hi + 1) \div 2}} : TRUE

SquareRoot(r) == RootSearch(r, 2, 0, 31622)

\* k^3 <= m * 10^j for k < 10^4, m < 10^4 and j in 6..8, without a product
\* above 10^9: k^3 = (k * q) * 10^4 + k * t with k^2 = q * 10^4 + t.
CubeLe(k, m, j) ==
    LET q == (k * k) \div MantHi
        t == (k * k) % MantHi
        hi == k * q + (k * t) \div MantHi
        lo == (k * t) % MantHi
        bound == m * Pow10(j - 4)
    IN hi < bound \/ (hi = bound /\ lo = 0)

RECURSIVE CubeRootSearch(_, _, _, _)
\* The largest k in lo..hi with k^3 <= m * 10^j, by bisection.
CubeRootSearch(m, j, lo, hi) ==
    IF lo >= hi THEN lo
    ELSE CHOOSE k \in
             {IF CubeLe(mid, m, j)
              THEN CubeRootSearch(m, j, mid, hi)
              ELSE CubeRootSearch(m, j, lo, mid - 1) :
                 mid \in {(lo + hi + 1) \div 2}} : TRUE

CubeRoot(m, j) == CubeRootSearch(m, j, MantLo, MantHi - 1)

SqrtV(a) ==
    IF IsNaN(a) \/ a.m < 0 THEN NaN
    ELSE IF IsInf(a) \/ IsZero(a) THEN a
    ELSE LET j == IF (a.e - 4) % 2 = 0 THEN 4 ELSE 5
         IN Norm(Strict1(SquareRoot, a.m * Pow10(j)), (a.e - j) \div 2)

\* sqrt(): NaN below zero.
Sqrt(a) == Strict1(SqrtV, a)

CbrtV(a) ==
    IF IsNaN(a) \/ IsInf(a) \/ IsZero(a) THEN a
    ELSE LET j == CHOOSE i \in 6..8 : (a.e - i) % 3 = 0
         IN Norm(Sgn(a.m) * Strict2(CubeRoot, Abs(a.m), j),
                 (a.e - j) \div 3)

\* cbrt(), and x ^ (1/3) for x >= 0.
Cbrt(a) == Strict1(CbrtV, a)

(***************************************************************************)
(* Planet and material codes (the same in both ports).                     *)
(***************************************************************************)
PLANET_EARTH == 0
PLANET_MARS == 1
PLANET_VENUS == 2
PLANET_JUPITER == 3
PLANET_SATURN == 4
PLANET_URANUS == 5
PLANET_NEPTUNE == 6
PLANET_PLUTO == 7
PLANET_MOON == 8
PLANET_VACUUM == 9

MATERIAL_STONY == 0
MATERIAL_IRON == 1
MATERIAL_COMETARY == 2

(***************************************************************************)
(* C port: binding energy.                                                 *)
(***************************************************************************)
\* get_planetary_binding_energy with "default: return 0.0".
get_planetary_binding_energy_nodefault(planet_type) ==
    CASE planet_type = PLANET_EARTH -> Dec(249, 30)
      [] planet_type = PLANET_MARS -> Dec(487, 28)
      [] planet_type = PLANET_VENUS -> Dec(157, 30)
      [] planet_type = PLANET_JUPITER -> Dec(206, 34)
      [] planet_type = PLANET_SATURN -> Dec(222, 33)
      [] planet_type = PLANET_URANUS -> Dec(119, 32)
      [] planet_type = PLANET_NEPTUNE -> Dec(169, 32)
      [] planet_type = PLANET_PLUTO -> Dec(285, 25)
      [] planet_type = PLANET_MOON -> Dec(123, 27)
      [] OTHER -> Zero

get_planetary_binding_energy(planet_type) ==
    CASE planet_type = PLANET_EARTH -> Dec(249, 30)
      [] planet_type = PLANET_MARS -> Dec(487, 28)
      [] planet_type = PLANET_VENUS -> Dec(157, 30)
      [] planet_type = PLANET_JUPITER -> Dec(206, 34)
      [] planet_type = PLANET_SATURN -> Dec(222, 33)
      [] planet_type = PLANET_URANUS -> Dec(119, 32)
      [] planet_type = PLANET_NEPTUNE -> Dec(169, 32)
      [] planet_type = PLANET_PLUTO -> Dec(285, 25)
      [] planet_type = PLANET_MOON -> Dec(123, 27)
      [] OTHER -> Dec(249, 30)

(***************************************************************************)
(* C port: the retention bands.  A band list is the thresholds (km) in the *)
(* order the if-chain tests them, and the values returned: val[i] when the *)
(* i-th test "diameter_km < th[i]" is the first to succeed, and the last   *)
(* value when none does.                                                   *)
(***************************************************************************)
Bands(th, val) == [th |-> th, val |-> val]

\* EarthIron with the values of the 50-100 m and 100-200 m bands exchanged.
EarthIronSwapped ==
    Bands(<<Dec(1, -2), Dec(3, -2), Dec(5, -2), Dec(10, -2), Dec(20, -2)>>,
    <<Dec(0, 0), Dec(20, -2), Dec(50, -2), Dec(90, -2), Dec(80, -2), Dec(95, -2)>>)

EarthIron ==
    Bands(<<Dec(1, -2), Dec(3, -2), Dec(5, -2), Dec(10, -2), Dec(20, -2)>>,
    <<Dec(0, 0), Dec(20, -2), Dec(50, -2), Dec(80, -2), Dec(90, -2), Dec(95, -2)>>)

EarthCometary ==
    Bands(<<Dec(5, -2), Dec(20, -2)>>,
    <<Dec(0, 0), Dec(5, -2), Dec(80, -2)>>)

EarthStony ==
    Bands(<<Dec(1, -2), Dec(3, -2), Dec(20, -2)>>,
    <<Dec(1, -2), Dec(10, -2), Dec(50, -2), Dec(90, -2)>>)

EarthBands(material_type) ==
    IF material_type = MATERIAL_IRON THEN EarthIron
    ELSE IF material_type = MATERIAL_COMETARY THEN EarthCometary
    ELSE EarthStony

\* MarsIron with retentions above 1.
MarsIronAmplifying ==
    Bands(<<Dec(1, -3)>>, <<Dec(150, -2), Dec(200, -2)>>)

MarsIron ==
    Bands(<<Dec(1, -3)>>, <<Dec(80, -2), Dec(95, -2)>>)

MarsCometary ==
    Bands(<<Dec(1, -2)>>, <<Dec(70, -2), Dec(90, -2)>>)

\* MarsStony with the first value written as a percentage.
MarsStonyPercent ==
    Bands(<<Dec(5, -3)>>, <<Dec(85, 0), Dec(95, -2)>>)

MarsStony ==
    Bands(<<Dec(5, -3)>>, <<Dec(85, -2), Dec(95, -2)>>)

MarsBands(material_type) ==
    IF material_type = MATERIAL_IRON THEN MarsIron
    ELSE IF material_type = MATERIAL_COMETARY THEN MarsCometary
    ELSE MarsStony

VenusIron ==
    Bands(<<Dec(10, -2), Dec(50, -2), Dec(100, -2)>>,
    <<Dec(0, 0), Dec(10, -2), Dec(50, -2), Dec(80, -2)>>)

VenusCometary ==
    Bands(<<Dec(100, -2)>>, <<Dec(0, 0), Dec(30, -2)>>)

VenusStony ==
    Bands(<<Dec(20, -2), Dec(100, -2)>>,
    <<Dec(0, 0), Dec(5, -2), Dec(60, -2)>>)

VenusBands(material_type) ==
    IF material_type = MATERIAL_IRON THEN VenusIron
    ELSE IF material_type = MATERIAL_COMETARY THEN VenusCometary
    ELSE VenusStony

\* JupiterIron with the 10 km test written before the 1 km test.
JupiterIronUnordered ==
    Bands(<<Dec(100, -1), Dec(100, -2)>>,
    <<Dec(0, 0), Dec(1, -2), Dec(20, -2)>>)

JupiterIron ==
    Bands(<<Dec(100, -2), Dec(100, -1)>>,
    <<Dec(0, 0), Dec(1, -2), Dec(20, -2)>>)

JupiterOther ==
    Bands(<<Dec(100, -1)>>, <<Dec(0, 0), Dec(10, -2)>>)

JupiterBands(material_type) ==
    IF material_type = MATERIAL_IRON THEN JupiterIron
    ELSE JupiterOther

SaturnIron ==
    Bands(<<Dec(50, -2), Dec(500, -2)>>,
    <<Dec(0, 0), Dec(5, -2), Dec(30, -2)>>)

SaturnOther ==
    Bands(<<Dec(500, -2)>>, <<Dec(0, 0), Dec(15, -2)>>)

SaturnBands(material_type) ==
    IF material_type = MATERIAL_IRON THEN SaturnIron
    ELSE SaturnOther

UranusIron ==
    Bands(<<Dec(200, -2), Dec(100, -1)>>,
    <<Dec(0, 0), Dec(2, -2), Dec(25, -2)>>)

UranusOther ==
    Bands(<<Dec(100, -1)>>, <<Dec(0, 0), Dec(15, -2)>>)

UranusBands(material_type) ==
    IF material_type = MATERIAL_IRON THEN UranusIron
    ELSE UranusOther

NeptuneIron ==
    Bands(<<Dec(300, -2), Dec(150, -1)>>,
    <<Dec(0, 0), Dec(1, -2), Dec(20, -2)>>)

NeptuneOther ==
    Bands(<<Dec(150, -1)>>, <<Dec(0, 0), Dec(10, -2)>>)

NeptuneBands(material_type) ==
    IF material_type = MATERIAL_IRON THEN NeptuneIron
    ELSE NeptuneOther

PlutoIron ==
    Bands(<<Dec(1, -3)>>, <<Dec(95, -2), Dec(99, -2)>>)

PlutoCometary ==
    Bands(<<Dec(1, -2)>>, <<Dec(90, -2), Dec(98, -2)>>)

PlutoStony ==
    Bands(<<Dec(5, -3)>>, <<Dec(92, -2), Dec(98, -2)>>)

PlutoBands(material_type) ==
    IF material_type = MATERIAL_IRON THEN PlutoIron
    ELSE IF material_type = MATERIAL_COMETARY THEN PlutoCometary
    ELSE PlutoStony

MoonIron ==
    Bands(<<Dec(1, -3)>>, <<Dec(99, -2), Dec(100, -2)>>)

MoonCometary ==
    Bands(<<Dec(1, -3)>>, <<Dec(98, -2), Dec(99, -2)>>)

MoonStony ==
    Bands(<<Dec(1, -3)>>, <<Dec(99, -2), Dec(100, -2)>>)

MoonBands(material_type) ==
    IF material_type = MATERIAL_IRON THEN MoonIron
    ELSE IF material_type = MATERIAL_COMETARY THEN MoonCometary
    ELSE MoonStony

\* The default case returning 0.00.
NoAtmosphereZero == Bands(<<>>, <<Dec(0, 0)>>)

\* case PLANET_VACUUM / default: no test, return 1.00.
NoAtmosphere == Bands(<<>>, <<Dec(100, -2)>>)

\* The switch of atmospheric_retention: the band list of a (planet, material).
BandList(planet_type, material_type) ==
    CASE planet_type = PLANET_EARTH -> EarthBands(material_type)
      [] planet_type = PLANET_MARS -> MarsBands(material_type)
      [] planet_type = PLANET_VENUS -> VenusBands(material_type)
      [] planet_type = PLANET_JUPITER -> JupiterBands(material_type)
      [] planet_type = PLANET_SATURN -> SaturnBands(material_type)
      [] planet_type = PLANET_URANUS -> UranusBands(material_type)
      [] planet_type = PLANET_NEPTUNE -> NeptuneBands(material_type)
      [] planet_type = PLANET_PLUTO -> PlutoBands(material_type)
      [] planet_type = PLANET_MOON -> MoonBands(material_type)
      [] OTHER -> NoAtmosphere

RECURSIVE FirstBandInclusive(_, _, _)
\* FirstBand with the tests written "diameter_km <= th".
FirstBandInclusive(diameter_km, b, i) ==
    IF i > Len(b.th) THEN b.val[i]
    ELSE IF Le(diameter_km, b.th[i]) THEN b.val[i]
    ELSE FirstBandInclusive(diameter_km, b, i + 1)

RECURSIVE FirstBand(_, _, _)
\* "if (diameter_km < th) return val;" in sequence, then the final return.
FirstBand(diameter_km, b, i) ==
    IF i > Len(b.th) THEN b.val[i]
    ELSE IF Lt(diameter_km, b.th[i]) THEN b.val[i]
    ELSE FirstBand(diameter_km, b, i + 1)

atmospheric_retention(diameter_km, planet_type, material_type) ==
    FirstBand(diameter_km, BandList(planet_type, material_type), 1)

(***************************************************************************)
(* QB64 port: binding energy and retention.                                *)
(***************************************************************************)
GetPlanetaryBindingEnergy(planet_type) ==
    CASE planet_type = 0 -> Dec(249, 30)
      [] planet_type = 1 -> Dec(487, 28)
      [] planet_type = 2 -> Dec(157, 30)
      [] planet_type = 3 -> Dec(206, 34)
      [] planet_type = 4 -> Dec(222, 33)
      [] planet_type = 5 -> Dec(119, 32)
      [] planet_type = 6 -> Dec(169, 32)
      [] planet_type = 7 -> Dec(285, 25)
      [] planet_type = 8 -> Dec(123, 27)
      [] planet_type = 9 -> Dec(249, 30)
      [] OTHER -> Dec(249, 30)

QBEarthIron ==
    Bands(<<Dec(1, -2), Dec(3, -2), Dec(5, -2), Dec(10, -2), Dec(20, -2)>>,
    <<Dec(0, 0), Dec(20, -2), Dec(50, -2), Dec(80, -2), Dec(90, -2), Dec(95, -2)>>)

QBEarthCometary ==
    Bands(<<Dec(5, -2), Dec(20, -2)>>,
    <<Dec(0, 0), Dec(5, -2), Dec(80, -2)>>)

QBEarthStony ==
    Bands(<<Dec(1, -2), Dec(3, -2), Dec(20, -2)>>,
    <<Dec(1, -2), Dec(10, -2), Dec(50, -2), Dec(90, -2)>>)

QBEarthBands(material_type) ==
    IF material_type = MATERIAL_IRON THEN QBEarthIron
    ELSE IF material_type = MATERIAL_COMETARY THEN QBEarthCometary
    ELSE QBEarthStony

QBMarsIron ==
    Bands(<<Dec(1, -3)>>, <<Dec(80, -2), Dec(95, -2)>>)

QBMarsCometary ==
    Bands(<<Dec(1, -2)>>, <<Dec(70, -2), Dec(90, -2)>>)

QBMarsStony ==
    Bands(<<Dec(5, -3)>>, <<Dec(85, -2), Dec(95, -2)>>)

QBMarsBands(material_type) ==
    IF material_type = MATERIAL_IRON THEN QBMarsIron
    ELSE IF material_type = MATERIAL_COMETARY THEN QBMarsCometary
    ELSE QBMarsStony

QBVenusIron ==
    Bands(<<Dec(10, -2), Dec(50, -2), Dec(100, -2)>>,
    <<Dec(0, 0), Dec(10, -2), Dec(50, -2), Dec(80, -2)>>)

QBVenusCometary ==
    Bands(<<Dec(100, -2)>>, <<Dec(0, 0), Dec(30, -2)>>)

QBVenusStony ==
    Bands(<<Dec(20, -2), Dec(100, -2)>>,
    <<Dec(0, 0), Dec(5, -2), Dec(60, -2)>>)

QBVenusBands(material_type) ==
    IF material_type = MATERIAL_IRON THEN QBVenusIron
    ELSE IF material_type = MATERIAL_COMETARY THEN QBVenusCometary
    ELSE QBVenusStony

QBJupiterIron ==
    Bands(<<Dec(100, -2), Dec(100, -1)>>,
    <<Dec(0, 0), Dec(1, -2), Dec(20, -2)>>)

QBJupiterOther ==
    Bands(<<Dec(100, -1)>>, <<Dec(0, 0), Dec(10, -2)>>)

QBJupiterBands(material_type) ==
    IF material_type = MATERIAL_IRON THEN QBJupiterIron
    ELSE QBJupiterOther

QBMoonIron ==
    Bands(<<Dec(1, -3)>>, <<Dec(99, -2), Dec(100, -2)>>)

QBMoonCometary ==
    Bands(<<Dec(1, -3)>>, <<Dec(98, -2), Dec(99, -2)>>)

QBMoonStony ==
    Bands(<<Dec(1, -3)>>, <<Dec(99, -2), Dec(100, -2)>>)

QBMoonBands(material_type) ==
    IF material_type = MATERIAL_IRON THEN QBMoonIron
    ELSE IF material_type = MATERIAL_COMETARY THEN QBMoonCometary
    ELSE QBMoonStony

\* SELECT CASE planet_type: cases 0, 1, 2, 3, 8 and 9; CASE ELSE for the rest.
QBBandList(planet_type, material_type) ==
    CASE planet_type = 0 -> QBEarthBands(material_type)
      [] planet_type = 1 -> QBMarsBands(material_type)
      [] planet_type = 2 -> QBVenusBands(material_type)
      [] planet_type = 3 -> QBJupiterBands(material_type)
      [] planet_type = 8 -> QBMoonBands(material_type)
      [] OTHER -> NoAtmosphere

RECURSIVE AssignBands(_, _, _, _)
\* "IF diameter_km < th THEN AtmosphericRetention = val" in sequence, none
\* leaving the function, then the unconditional last assignment; r is the
\* function's result variable so far.
AssignBands(diameter_km, b, i, r) ==
    IF i > Len(b.th) THEN b.val[i]
    ELSE AssignBands(diameter_km, b, i + 1,
                     IF Lt(diameter_km, b.th[i]) THEN b.val[i] ELSE r)

AtmosphericRetention(diameter_km, planet_type, material_type) ==
    AssignBands(diameter_km, QBBandList(planet_type, material_type), 1, Zero)

(***************************************************************************)
(* Names.  A string is the sequence of its characters; NULL is the C null  *)
(* pointer (no argument given).                                            *)
(***************************************************************************)
NULL == <<"NULL">>

UpperCase == <<"A", "B", "C", "D", "E", "F", "G", "H", "I", "J", "K", "L", "M",
               "N", "O", "P", "Q", "R", "S", "T", "U", "V", "W", "X", "Y", "Z">>
LowerCase == <<"a", "b", "c", "d", "e", "f", "g", "h", "i", "j", "k", "l", "m",
               "n", "o", "p", "q", "r", "s", "t", "u", "v", "w", "x", "y", "z">>

tolower(ch) ==
    IF \E i \in 1..Len(UpperCase) : UpperCase[i] = ch
    THEN LowerCase[CHOOSE i \in 1..Len(UpperCase) : UpperCase[i] = ch]
    ELSE ch

toupper(ch) ==
    IF \E i \in 1..Len(LowerCase) : LowerCase[i] = ch
    THEN UpperCase[CHOOSE i \in 1..Len(LowerCase) : LowerCase[i] = ch]
    ELSE ch

\* strcmp(a, b) == 0: the comparison without the folding of case.
strcmp0(a, b) == a = b

\* strcasecmp(a, b) == 0
strcasecmp0(a, b) ==
    /\ Len(a) = Len(b)
    /\ \A i \in 1..Len(a) : tolower(a[i]) = tolower(b[i])

\* UCASE$(s)
UCASE(s) == [i \in 1..Len(s) |-> toupper(s[i])]

get_planet_type(planet_name) ==
    IF planet_name = NULL THEN PLANET_EARTH
    ELSE IF strcasecmp0(planet_name, <<"e", "a", "r", "t", "h">>) THEN PLANET_EARTH
    ELSE IF strcasecmp0(planet_name, <<"m", "a", "r", "s">>) THEN PLANET_MARS
    ELSE IF strcasecmp0(planet_name, <<"v", "e", "n", "u", "s">>) THEN PLANET_VENUS
    ELSE IF strcasecmp0(planet_name, <<"j", "u", "p", "i", "t", "e", "r">>) THEN PLANET_JUPITER
    ELSE IF strcasecmp0(planet_name, <<"s", "a", "t", "u", "r", "n">>) THEN PLANET_SATURN
    ELSE IF strcasecmp0(planet_name, <<"u", "r", "a", "n", "u", "s">>) THEN PLANET_URANUS
    ELSE IF strcasecmp0(planet_name, <<"n", "e", "p", "t", "u", "n", "e">>) THEN PLANET_NEPTUNE
    ELSE IF strcasecmp0(planet_name, <<"p", "l", "u", "t", "o">>) THEN PLANET_PLUTO
    ELSE IF strcasecmp0(planet_name, <<"m", "o", "o", "n">>) THEN PLANET_MOON
    ELSE IF strcasecmp0(planet_name, <<"v", "a", "c", "u", "u", "m">>) THEN PLANET_VACUUM
    ELSE PLANET_EARTH

get_material_type(material_name) ==
    IF material_name = NULL THEN MATERIAL_STONY
    ELSE IF strcasecmp0(material_name, <<"i", "r", "o", "n">>) THEN MATERIAL_IRON
    ELSE IF strcasecmp0(material_name, <<"c", "o", "m", "e", "t", "a", "r", "y">>) THEN MATERIAL_COMETARY
    ELSE IF strcasecmp0(material_name, <<"s", "t", "o", "n", "y">>) THEN MATERIAL_STONY
    ELSE MATERIAL_STONY

GetPlanetType(planet_name) ==
    IF Len(planet_name) = 0 THEN PLANET_EARTH
    ELSE LET pname == UCASE(planet_name) IN
        CASE pname = <<"E", "A", "R", "T", "H">> -> PLANET_EARTH
          [] pname = <<"M", "A", "R", "S">> -> PLANET_MARS
          [] pname = <<"V", "E", "N", "U", "S">> -> PLANET_VENUS
          [] pname = <<"J", "U", "P", "I", "T", "E", "R">> -> PLANET_JUPITER
          [] pname = <<"S", "A", "T", "U", "R", "N">> -> PLANET_SATURN
          [] pname = <<"U", "R", "A", "N", "U", "S">> -> PLANET_URANUS
          [] pname = <<"N", "E", "P", "T", "U", "N", "E">> -> PLANET_NEPTUNE
          [] pname = <<"P", "L", "U", "T", "O">> -> PLANET_PLUTO
          [] pname = <<"M", "O", "O", "N">> -> PLANET_MOON
          [] pname = <<"V", "A", "C", "U", "U", "M">> -> PLANET_VACUUM
          [] OTHER -> PLANET_EARTH

GetMaterialType(material_name) ==
    IF Len(material_name) = 0 THEN MATERIAL_STONY
    ELSE LET mname == UCASE(material_name) IN
        CASE mname = <<"I", "R", "O", "N">> -> MATERIAL_IRON
          [] mname = <<"C", "O", "M", "E", "T", "A", "R", "Y">> -> MATERIAL_COMETARY
          [] mname = <<"S", "T", "O", "N", "Y">> -> MATERIAL_STONY
          [] OTHER -> MATERIAL_STONY

(***************************************************************************)
(* Reading numbers from argument strings.                                  *)
(***************************************************************************)
DigitChars == <<"0", "1", "2", "3", "4", "5", "6", "7", "8", "9">>
IsDigit(ch) == \E i \in 1..Len(DigitChars) : DigitChars[i] = ch
DigitVal(ch) == (CHOOSE i \in 1..Len(DigitChars) : DigitChars[i] = ch) - 1

RECURSIVE ScanDigits(_, _, _, _)
\* The digits of s from position i on: the position after them, the number
\* they spell after the digits already read (n), and how many there were.
ScanDigits(s, i, n, cnt) ==
    IF i <= Len(s) /\ IsDigit(s[i])
    THEN ScanDigits(s, i + 1, 10 * n + DigitVal(s[i]), cnt + 1)
    ELSE [pos |-> i, n |-> n, cnt |-> cnt]

RECURSIVE SkipSpaces(_, _)
SkipSpaces(s, i) == IF i <= Len(s) /\ s[i] = " " THEN SkipSpaces(s, i + 1) ELSE i

\* Does s hold the word w (lower case) at position i, in any case?
WordAt(s, i, w) ==
    /\ i + Len(w) - 1 <= Len(s)
    /\ \A j \in 1..Len(w) : tolower(s[i + j - 1]) = w[j]

\* The exponent part of s at position pos ("e" or "E", a sign, digits): its
\* value and the position after it; 0 and pos when there is none.
ScanExponent(s, pos) ==
    With(pos + 1, LAMBDA j0 :
    With(j0 <= Len(s) /\ s[j0] \in {"+", "-"}, LAMBDA esigned :
    With(ScanDigits(s, IF esigned THEN j0 + 1 ELSE j0, 0, 0), LAMBDA ed :
        IF pos <= Len(s) /\ s[pos] \in {"e", "E"} /\ ed.cnt > 0
        THEN [n |-> (IF esigned /\ s[j0] = "-" THEN -1 ELSE 1) * ed.n,
              pos |-> ed.pos]
        ELSE [n |-> 0, pos |-> pos])))

ScanNumberV(s, words) ==
    With(SkipSpaces(s, 1), LAMBDA i0 :
    With(i0 <= Len(s) /\ s[i0] \in {"+", "-"}, LAMBDA signed :
    With(IF signed /\ s[i0] = "-" THEN -1 ELSE 1, LAMBDA sg :
    With(IF signed THEN i0 + 1 ELSE i0, LAMBDA i1 :
    With(ScanDigits(s, i1, 0, 0), LAMBDA ip :
    With(IF ip.pos <= Len(s) /\ s[ip.pos] = "."
         THEN ScanDigits(s, ip.pos + 1, ip.n, 0)
         ELSE [pos |-> ip.pos, n |-> ip.n, cnt |-> 0], LAMBDA fp :
    With(ScanExponent(s, fp.pos), LAMBDA ex :
        IF ip.cnt + fp.cnt > 0
        THEN [val |-> Norm(sg * fp.n, ex.n - fp.cnt), end |-> ex.pos]
        ELSE IF words /\ WordAt(s, i1, <<"i", "n", "f", "i", "n", "i", "t", "y">>)
        THEN [val |-> IF sg > 0 THEN Inf ELSE NegInf, end |-> i1 + 8]
        ELSE IF words /\ WordAt(s, i1, <<"i", "n", "f">>)
        THEN [val |-> IF sg > 0 THEN Inf ELSE NegInf, end |-> i1 + 3]
        ELSE IF words /\ WordAt(s, i1, <<"n", "a", "n">>)
        THEN [val |-> NaN, end |-> i1 + 3]
        ELSE [val |-> Zero, end |-> 1])))))))

\* The decimal number at the start of s: its value and the position of the
\* first character after it (1 = nothing was read).  words: whether "inf",
\* "infinity" and "nan" are read (strtod) or not (VAL).
ScanNumber(s, words) == Strict2(ScanNumberV, s, words)

\* strtod(arg, &endptr); *endptr != '\0': arg is not a number to its end.
NotANumber(arg) == ScanNumber(arg, TRUE).end # Len(arg) + 1

atof(arg) == ScanNumber(arg, TRUE).val

\* QB64 VAL(arg$)
VAL(arg) == ScanNumber(arg, FALSE).val

\* QB64 IsNumeric: every character is a digit or one of . - + e E.
IsNumeric(A) ==
    /\ Len(A) # 0
    /\ \A I \in 1..Len(A) : IsDigit(A[I]) \/ A[I] \in {".", "-", "+", "e", "E"}

(***************************************************************************)
(* Constants and formulas of main.                                         *)
(***************************************************************************)
LIGHT_SPEED == Dec(299792458, 0)
PI_VAL == Dec(314159265, -8)
DEFAULT_RHO == Dec(3000, 0)
DEFAULT_EPS == Dec(1, 0)

\* SphereDiameter without the factor 2.0: the radius.
SphereDiameterRadius(m, rho) ==
    LET volume == Div(m, rho)
    IN Cbrt(Div(Mul(Dec(3, 0), volume), Mul(Dec(4, 0), PI_VAL)))

\* 2.0 * cbrt((3.0*volume)/(4.0*PI)) with volume = m / rho: the diameter (m)
\* of the sphere of mass m and density rho.
SphereDiameter(m, rho) ==
    LET volume == Div(m, rho)
    IN Mul(Dec(2, 0), Cbrt(Div(Mul(Dec(3, 0), volume), Mul(Dec(4, 0), PI_VAL))))

\* EstimatedDiameterKm at the density of iron instead of the reference density.
EstimatedDiameterKmDense(m) == Div(SphereDiameter(m, Dec(7800, 0)), Dec(1000, 0))

\* Mode m: the diameter (km) estimated from the mass at 3000 kg/m^3.
EstimatedDiameterKm(m) == Div(SphereDiameter(m, Dec(3000, 0)), Dec(1000, 0))

\* SphereMass without the conversion of the diameter from km to m.
SphereMassKm(D_km, rho) ==
    LET r == Div(D_km, Dec(2, 0))
        volume == Mul(Mul(Div(Dec(4, 0), Dec(3, 0)), PI_VAL), Mul(Mul(r, r), r))
    IN Mul(rho, volume)

\* Mode d: rho * (4.0/3.0) * PI * pow(D/2.0, 3.0) with D = D_km * 1000.0.
SphereMass(D_km, rho) ==
    LET D == Mul(D_km, Dec(1000, 0))
        r == Div(D, Dec(2, 0))
        volume == Mul(Mul(Div(Dec(4, 0), Dec(3, 0)), PI_VAL), Mul(Mul(r, r), r))
    IN Mul(rho, volume)

\* sqrt(2.0 * (U/effective_eps) / m)
ClassicalSpeed(U, effective_eps, m) ==
    Sqrt(Div(Mul(Dec(2, 0), Div(U, effective_eps)), m))

\* gamma = 1.0 + (U/effective_eps)/(m*c*c); beta2 = 1.0 - 1.0/(gamma*gamma);
\* v_rel = c * sqrt(beta2 <= 0.0 ? 0.0 : beta2)
RelativisticSpeed(U, effective_eps, m) ==
    LET gamma == Add(One, Div(Div(U, effective_eps),
                              Mul(Mul(m, LIGHT_SPEED), LIGHT_SPEED)))
        beta2 == Sub(One, Div(One, Mul(gamma, gamma)))
    IN Mul(LIGHT_SPEED, Sqrt(IF Le(beta2, Zero) THEN Zero ELSE beta2))

\* Mode v: gamma = 1.0 / sqrt(1.0 - beta*beta); (gamma - 1.0) * c * c
KineticPerMass(beta) ==
    LET gamma == Div(One, Sqrt(Sub(One, Mul(beta, beta))))
    IN Mul(Mul(Sub(gamma, One), LIGHT_SPEED), LIGHT_SPEED)

\* EffectiveEps with the retention left out.
EffectiveEpsRequested(e, r) == e

\* effective_eps = eps * retention
EffectiveEps(e, r) == Mul(e, r)

\* v_rel >= 0.99*c
UltraRelativistic(v_rel) == Ge(v_rel, Mul(Dec(99, -2), LIGHT_SPEED))

(***************************************************************************)
(* Argument classification and the reading of the numeric arguments.       *)
(* args is argv[1..argc-1] (C) and args(1..arg_count) (QB64).              *)
(***************************************************************************)
Flag(b) == IF b THEN 1 ELSE 0

ClassifyC(args) ==
    With(Len(args) + 1, LAMBDA argc :
    With(/\ argc > 3
         /\ argc >= 6
         /\ NotANumber(args[argc - 2])
         /\ NotANumber(args[argc - 1]), LAMBDA atm :
    With(atm /\ argc >= 7 /\ NotANumber(args[argc - 3]), LAMBDA obj3 :
    With(argc > 3 /\ ~atm /\ NotANumber(args[argc - 1]), LAMBDA objlast :
        [planet_name |-> IF atm THEN args[argc - 2] ELSE NULL,
         material_name |-> IF atm THEN args[argc - 1] ELSE NULL,
         object_name |-> IF obj3 THEN args[argc - 3]
                         ELSE IF objlast THEN args[argc - 1] ELSE NULL,
         has_object |-> Flag(obj3 \/ objlast),
         has_atmospheric |-> Flag(atm),
         arg_count |-> argc - 1]))))

ClassifyQB(args) ==
    LET n0 == Len(args)
        atm == /\ n0 >= 6
               /\ ~IsNumeric(args[n0 - 1])
               /\ ~IsNumeric(args[n0])
        n1 == IF atm THEN n0 - 2 ELSE n0
        obj3 == atm /\ n1 >= 4 /\ ~IsNumeric(args[n1])
        n2 == IF obj3 THEN n1 - 1 ELSE n1
        objlast == ~atm /\ n2 > 3 /\ ~IsNumeric(args[n2])
        n3 == IF objlast THEN n2 - 1 ELSE n2
    IN [planet_name |-> IF atm THEN args[n0 - 1] ELSE <<>>,
        material_name |-> IF atm THEN args[n0] ELSE <<>>,
        object_name |-> IF obj3 THEN args[n1]
                        ELSE IF objlast THEN args[n2] ELSE <<>>,
        has_object |-> Flag(obj3 \/ objlast),
        has_atmospheric |-> Flag(atm),
        arg_count |-> n3]

Unset == [k |-> "unset", m |-> 0, e |-> 0]

\* C: m/D_km/v_km_s = atof(argv[2]) and the conditional expressions for rho
\* and eps.
ReadNumbersC(mode, args, has_object) ==
    LET argc == Len(args) + 1
        third == argc > 3 /\ (has_object = 0 \/ argc > 4)
    IN IF mode = "M"
       THEN [val |-> atof(args[2]),
             rho |-> Unset,
             eps |-> IF third THEN atof(args[3]) ELSE DEFAULT_EPS]
       ELSE [val |-> atof(args[2]),
             rho |-> IF third THEN atof(args[3]) ELSE DEFAULT_RHO,
             eps |-> IF argc > 4 /\ has_object = 1 THEN atof(args[4])
                     ELSE DEFAULT_EPS]

\* QB64: VAL(args(2)), and VAL(args(3)), VAL(args(4)) when arg_count allows.
ReadNumbersQB(mode, args, arg_count) ==
    IF mode = "M"
    THEN [val |-> VAL(args[2]),
          rho |-> Unset,
          eps |-> IF arg_count > 2 THEN VAL(args[3]) ELSE DEFAULT_EPS]
    ELSE [val |-> VAL(args[2]),
          rho |-> IF arg_count > 2 THEN VAL(args[3]) ELSE DEFAULT_RHO,
          eps |-> IF arg_count > 3 THEN VAL(args[4]) ELSE DEFAULT_EPS]

\* NotPositive with the tests written "< 0.0".
NotPositiveStrict(mode, n) ==
    IF mode = "M" THEN Lt(n.val, Zero) \/ Lt(n.eps, Zero)
    ELSE Lt(n.val, Zero) \/ Lt(n.rho, Zero) \/ Lt(n.eps, Zero)

\* "m <= 0.0 || eps <= 0.0" and "x <= 0.0 || rho <= 0.0 || eps <= 0.0"
NotPositive(mode, n) ==
    IF mode = "M" THEN Le(n.val, Zero) \/ Le(n.eps, Zero)
    ELSE Le(n.val, Zero) \/ Le(n.rho, Zero) \/ Le(n.eps, Zero)

(***************************************************************************)
(* The command lines explored.  An argument is the sequence of its         *)
(* characters.                                                             *)
(***************************************************************************)
\* <mass_kg>
MassArgs ==
    {<<"1", "e", "9">>,
     <<"1", ".", "2", "e", "1", "7">>,
     <<"1", "e", "3">>,
     <<"0">>,
     <<"-", "5">>}

\* <diameter_km>
DiameterArgs ==
    {<<"0", ".", "1">>,
     <<"1", ".", "0">>,
     <<"0", ".", "0", "0", "5">>,
     <<"1", "0", ".", "0">>,
     <<"0">>,
     <<"-", "1">>}

\* <speed_km_s>
SpeedArgs ==
    {<<"3", "0", "0", "0", "0">>,
     <<"2", "9", "9", "0", "0", "0">>,
     <<"2", "9", "9", "7", "9", "2", ".", "4", "5", "8">>,
     <<"4", "0", "0", "0", "0", "0">>,
     <<"0", ".", "0", "0", "1">>,
     <<"0">>,
     <<"-", "3">>}

\* [rho_kg_m3]
RhoArgs ==
    {<<"7", "8", "0", "0">>,
     <<"1", "e", "1", "5">>,
     <<"0">>}

\* [epsilon]
EpsArgs ==
    {<<"0", ".", "2", "5">>,
     <<"0">>,
     <<"-", "0", ".", "5">>}

\* [name]
NameArgs ==
    {<<"1", "0", "0", "m", " ", "o", "b", "j", "e", "c", "t">>,
     <<"A", "p", "o", "p", "h", "i", "s">>}

\* [planet]
PlanetArgs ==
    {<<"e", "a", "r", "t", "h">>,
     <<"E", "A", "R", "T", "H">>,
     <<"M", "a", "r", "s">>,
     <<"v", "e", "n", "u", "s">>,
     <<"j", "u", "p", "i", "t", "e", "r">>,
     <<"s", "a", "t", "u", "r", "n">>,
     <<"u", "r", "a", "n", "u", "s">>,
     <<"n", "e", "p", "t", "u", "n", "e">>,
     <<"p", "l", "u", "t", "o">>,
     <<"m", "o", "o", "n">>,
     <<"v", "a", "c", "u", "u", "m">>,
     <<"c", "e", "r", "e", "s">>}

\* [material]
MaterialArgs ==
    {<<"i", "r", "o", "n">>,
     <<"I", "r", "o", "n">>,
     <<"s", "t", "o", "n", "y">>,
     <<"c", "o", "m", "e", "t", "a", "r", "y">>,
     <<"r", "o", "c", "k", "y">>}

\* [planet] [material]: every planet with iron, and Earth, Venus and Pluto
\* with every material.
AtmoTails ==
    {<<>>} \cup
    {<<p, <<"i", "r", "o", "n">>>> : p \in PlanetArgs} \cup
    {<<p, m>> : p \in {<<"e", "a", "r", "t", "h">>, <<"v", "e", "n", "u", "s">>, <<"p", "l", "u", "t", "o">>},
                m \in MaterialArgs}

NameTails == {<<>>} \cup {<<n>> : n \in NameArgs}

ModeM == <<"m">>
ModeD == <<"d">>
ModeV == <<"v">>

\* unbindEnergy d 0.1 3000 1.0 "100m object" earth iron
ContributorTest ==
    <<ModeD, <<"0", ".", "1">>, <<"3", "0", "0", "0">>, <<"1", ".", "0">>,
      <<"1", "0", "0", "m", " ", "o", "b", "j", "e", "c", "t">>,
      <<"e", "a", "r", "t", "h">>, <<"i", "r", "o", "n">>>>

CommandLines ==
    {<<>>, <<ModeD>>, <<<<"D">>, <<"1", ".", "0">>>>, ContributorTest,
     <<<<"x">>, <<"1", ".", "0">>, <<"7", "8", "0", "0">>>>} \cup
    {<<ModeM, x>> \o t \o n \o a :
        x \in MassArgs, t \in {<<>>} \cup {<<e>> : e \in EpsArgs},
        n \in NameTails, a \in AtmoTails} \cup
    {<<x[1], x[2]>> \o t \o n \o a :
        x \in ({ModeD} \X DiameterArgs) \cup ({ModeV} \X SpeedArgs),
        t \in {<<>>} \cup {<<r>> : r \in RhoArgs}
                \cup {<<r, e>> : r \in RhoArgs, e \in EpsArgs},
        n \in NameTails, a \in AtmoTails}

(***************************************************************************)
(* State.                                                                  *)
(***************************************************************************)
VARIABLES
    port,             \* "C" or "QB64": which program runs
    args,             \* the command line
    pc,               \* where main is
    arg_count,        \* QB64 arg_count after classification (C: argc - 1)
    object_name, planet_name, material_name,
    has_object, has_atmospheric,
    planet_type, material_type,
    U,                \* binding energy of the target
    mode,             \* "M", "D", "V"
    val,              \* m (mode m), D_km (mode d), v_km_s (mode v)
    rho, eps,
    D_km,             \* the diameter (km) retention is looked up at
    retention, effective_eps,
    mass,             \* m, or m_req in mode v
    k_per_mass,       \* mode v
    v_class, v_rel,
    m_class,          \* mode v
    lookups,          \* the diameters retention was looked up at, in order
    out,              \* lines printed on stdout, by their leading words
    errout,           \* lines printed on stderr
    exit_code,        \* -1 while running
    probe, prev,      \* a direct call of one function, and the call before it
    dose,             \* the locals of unbindDose's main
    parse             \* the locals of ParseArgs and the args array

runvars == <<port, args, pc, arg_count, object_name, planet_name, material_name,
             has_object, has_atmospheric, planet_type, material_type, U, mode,
             val, rho, eps, D_km, retention, effective_eps, mass, k_per_mass,
             v_class, v_rel, m_class, lookups, out, errout, exit_code>>

vars == <<runvars, probe, prev, dose, parse>>

NoProbe == [fn |-> "none", d |-> Unset, planet |-> 0, material |-> 0,
            r_C |-> Unset, r_QB |-> Unset,
            iron |-> Unset, stony |-> Unset, cometary |-> Unset]

\* unbindDose has not read its arguments; ParseArgs has not been called.
NoDose ==
    [arg_count |-> 0, E |-> Unset, eta |-> Unset, d |-> Unset, A |-> Unset,
     M |-> Unset, f |-> Unset, theta_deg |-> Unset, atmos_trans |-> Unset,
     F |-> Unset, D_upper |-> Unset, D_lower |-> Unset]
NoParse ==
    [cmdline |-> <<>>, i |-> 0, count |-> 0, in_quotes |-> 0,
     current_arg |-> <<>>, args |-> <<>>, error |-> ""]

Ports == {"C", "QB64"}

\* Everything main has not assigned yet.
Fresh ==
    /\ arg_count = 0
    /\ object_name = (IF port = "C" THEN NULL ELSE <<>>)
    /\ planet_name = object_name /\ material_name = object_name
    /\ has_object = 0 /\ has_atmospheric = 0
    /\ planet_type = PLANET_EARTH /\ material_type = MATERIAL_STONY
    /\ U = Unset /\ mode = ""
    /\ val = Unset /\ rho = Unset /\ eps = Unset
    /\ D_km = Unset /\ retention = Unset /\ effective_eps = Unset
    /\ mass = Unset /\ k_per_mass = Unset
    /\ v_class = Unset /\ v_rel = Unset /\ m_class = Unset
    /\ lookups = <<>> /\ out = <<>> /\ errout = <<>>
    /\ exit_code = -1

Init ==
    /\ port \in Ports
    /\ args \in CommandLines
    /\ pc = "classify"
    /\ Fresh
    /\ probe = NoProbe /\ prev = NoProbe
    /\ dose = NoDose /\ parse = NoParse

\* PRINT writes to stdout in QB64; fprintf(stderr, ...) in C.
Fail(msg) ==
    /\ IF port = "C"
       THEN errout' = Append(errout, msg) /\ out' = out /\ exit_code' = 1
       ELSE out' = Append(out, msg) /\ errout' = errout /\ exit_code' = 0
    /\ pc' = "done"

\* Retention kept in a variable that outlives the run and is multiplied at
\* every lookup.
RetentionCompounded(d, p, m) ==
    LET r == IF port = "C" THEN atmospheric_retention(d, p, m)
             ELSE AtmosphericRetention(d, p, m)
    IN IF retention = Unset THEN r ELSE Mul(retention, r)

Retention(d, p, m) ==
    IF port = "C" THEN atmospheric_retention(d, p, m)
    ELSE AtmosphericRetention(d, p, m)

\* planet_name / material_name / object_name was given
Given(name) == IF port = "C" THEN name # NULL ELSE Len(name) > 0

(***************************************************************************)
(* main, step by step.                                                     *)
(***************************************************************************)
Classify ==
    /\ pc = "classify"
    /\ LET cl == IF port = "C" THEN ClassifyC(args) ELSE ClassifyQB(args)
       IN /\ planet_name' = cl.planet_name
          /\ material_name' = cl.material_name
          /\ object_name' = cl.object_name
          /\ has_object' = cl.has_object
          /\ has_atmospheric' = cl.has_atmospheric
          /\ arg_count' = cl.arg_count
    /\ pc' = "resolve"
    /\ UNCHANGED <<port, args, planet_type, material_type, U, mode, val, rho, eps,
                   D_km, retention, effective_eps, mass, k_per_mass, v_class,
                   v_rel, m_class, lookups, out, errout, exit_code, probe, prev, dose, parse>>

Resolve ==
    /\ pc = "resolve"
    /\ planet_type' = IF port = "C" THEN get_planet_type(planet_name)
                      ELSE GetPlanetType(planet_name)
    /\ material_type' = IF port = "C" THEN get_material_type(material_name)
                        ELSE GetMaterialType(material_name)
    /\ U' = IF port = "C" THEN get_planetary_binding_energy(planet_type')
            ELSE GetPlanetaryBindingEnergy(planet_type')
    /\ pc' = "dispatch"
    /\ UNCHANGED <<port, args, arg_count, object_name, planet_name, material_name,
                   has_object, has_atmospheric, mode, val, rho, eps,
                   D_km, retention, effective_eps, mass, k_per_mass, v_class,
                   v_rel, m_class, lookups, out, errout, exit_code, probe, prev, dose, parse>>

\* argv[1][0] (C), UCASE$(LEFT$(args(1), 1)) (QB64), compared with m, d, v.
ModeOf(arg) ==
    IF Len(arg) = 0 THEN ""
    ELSE IF toupper(arg[1]) \in {"M", "D", "V"} THEN toupper(arg[1])
    ELSE "?"

Dispatch ==
    /\ pc = "dispatch"
    /\ IF (port = "C" /\ Len(args) + 1 < 3) \/ (port = "QB64" /\ arg_count < 2)
       THEN Fail("Usage:") /\ mode' = mode
       ELSE IF ModeOf(args[1]) \in {"M", "D", "V"}
       THEN /\ mode' = ModeOf(args[1])
            /\ pc' = "validate"
            /\ UNCHANGED <<out, errout, exit_code>>
       ELSE Fail("First arg must be 'm', 'd', or 'v'.") /\ mode' = mode
    /\ UNCHANGED <<port, args, arg_count, object_name, planet_name, material_name,
                   has_object, has_atmospheric, planet_type, material_type, U,
                   val, rho, eps, D_km, retention, effective_eps, mass,
                   k_per_mass, v_class, v_rel, m_class, lookups, probe, prev, dose, parse>>

Validate ==
    /\ pc = "validate"
    /\ LET n == IF port = "C" THEN ReadNumbersC(mode, args, has_object)
                ELSE ReadNumbersQB(mode, args, arg_count)
       IN /\ val' = n.val /\ rho' = n.rho /\ eps' = n.eps
          /\ IF NotPositive(mode, n)
             THEN Fail("Inputs must be positive.")
             ELSE /\ pc' = CASE mode = "M" -> "m_lookup"
                             [] mode = "D" -> "d_lookup"
                             [] mode = "V" -> "v_header"
                  /\ UNCHANGED <<out, errout, exit_code>>
    /\ UNCHANGED <<port, args, arg_count, object_name, planet_name, material_name,
                   has_object, has_atmospheric, planet_type, material_type, U,
                   mode, D_km, retention, effective_eps, mass, k_per_mass,
                   v_class, v_rel, m_class, lookups, probe, prev, dose, parse>>

\* if (has_object) OBJECT; if (planet_name) PLANET; if (material_name) MATERIAL
Header ==
    (IF has_object # 0 THEN <<"OBJECT">> ELSE <<>>)
    \o (IF Given(planet_name) THEN <<"PLANET">> ELSE <<>>)
    \o (IF Given(material_name) THEN <<"MATERIAL">> ELSE <<>>)

\* Conclusion without the test of v_rel against 0.99*c.
ConclusionDestroyed(v) == <<"CONCLUSION: DESTROYED">>

\* The NOTE and CONCLUSION lines of modes m and d.
Conclusion(v) ==
    IF UltraRelativistic(v)
    THEN <<"NOTE: v_rel ~ c", "CONCLUSION: SURVIVES">>
    ELSE <<"CONCLUSION: DESTROYED">>

\* Mode m: the diameter estimate, the retention lookup, effective_eps.
ModeM_Lookup ==
    /\ pc = "m_lookup"
    /\ D_km' = EstimatedDiameterKm(val)
    /\ retention' = Retention(D_km', planet_type, material_type)
    /\ lookups' = Append(lookups, D_km')
    /\ effective_eps' = EffectiveEps(eps, retention')
    /\ mass' = val
    /\ pc' = "m_report"
    /\ UNCHANGED <<port, args, arg_count, object_name, planet_name, material_name,
                   has_object, has_atmospheric, planet_type, material_type, U,
                   mode, val, rho, eps, k_per_mass, v_class, v_rel, m_class,
                   out, errout, exit_code, probe, prev, dose, parse>>

\* Modes m and d: the speeds and the lines printed.
ModeM_Report ==
    /\ pc = "m_report"
    /\ v_class' = ClassicalSpeed(U, effective_eps, mass)
    /\ v_rel' = RelativisticSpeed(U, effective_eps, mass)
    /\ out' = out \o Header \o <<"INPUT", "TARGET", "RESULT",
                                 "Required speed (relativistic)">>
                  \o Conclusion(v_rel')
    /\ exit_code' = 0
    /\ pc' = "done"
    /\ UNCHANGED <<port, args, arg_count, object_name, planet_name, material_name,
                   has_object, has_atmospheric, planet_type, material_type, U,
                   mode, val, rho, eps, D_km, retention, effective_eps, mass,
                   k_per_mass, m_class, lookups, errout, probe, prev, dose, parse>>

\* Mode d: the retention lookup at the given diameter, effective_eps, and
\* the header lines.
ModeD_Lookup ==
    /\ pc = "d_lookup"
    /\ D_km' = val
    /\ retention' = Retention(val, planet_type, material_type)
    /\ lookups' = Append(lookups, val)
    /\ effective_eps' = EffectiveEps(eps, retention')
    /\ out' = out \o Header
    /\ pc' = "d_report"
    /\ UNCHANGED <<port, args, arg_count, object_name, planet_name, material_name,
                   has_object, has_atmospheric, planet_type, material_type, U,
                   mode, val, rho, eps, mass, k_per_mass, v_class, v_rel,
                   m_class, errout, exit_code, probe, prev, dose, parse>>

ModeD_Report ==
    /\ pc = "d_report"
    /\ mass' = SphereMass(D_km, rho)
    /\ v_class' = ClassicalSpeed(U, effective_eps, mass')
    /\ v_rel' = RelativisticSpeed(U, effective_eps, mass')
    /\ out' = out \o <<"INPUT", "TARGET", "RESULT",
                       "Required speed (classical)",
                       "Required speed (relativistic)">>
                  \o Conclusion(v_rel')
    /\ exit_code' = 0
    /\ pc' = "done"
    /\ UNCHANGED <<port, args, arg_count, object_name, planet_name, material_name,
                   has_object, has_atmospheric, planet_type, material_type, U,
                   mode, val, rho, eps, D_km, retention, effective_eps,
                   k_per_mass, m_class, lookups, errout, probe, prev, dose, parse>>

\* Mode v: OBJECT and PLANET are printed, then the speed is compared with c.
ModeV_Header ==
    /\ pc = "v_header"
    /\ LET beta == Div(Mul(val, Dec(1000, 0)), LIGHT_SPEED)
           lines == out \o (IF has_object # 0 THEN <<"OBJECT">> ELSE <<>>)
                        \o <<"PLANET">>
       IN IF Ge(beta, One)
          THEN /\ pc' = "done"
               /\ IF port = "C"
                  THEN /\ out' = lines
                       /\ errout' = Append(errout, "Speed must be < c.")
                       /\ exit_code' = 1
                  ELSE /\ out' = Append(lines, "Speed must be < c.")
                       /\ errout' = errout
                       /\ exit_code' = 0
          ELSE /\ pc' = "v_pass1"
               /\ out' = lines
               /\ UNCHANGED <<errout, exit_code>>
    /\ UNCHANGED <<port, args, arg_count, object_name, planet_name, material_name,
                   has_object, has_atmospheric, planet_type, material_type, U,
                   mode, val, rho, eps, D_km, retention, effective_eps, mass,
                   k_per_mass, v_class, v_rel, m_class, lookups, probe, prev, dose, parse>>

\* Mode v, first pass: the mass and diameter without atmospheric losses.
ModeV_Pass1 ==
    /\ pc = "v_pass1"
    /\ k_per_mass' = KineticPerMass(Div(Mul(val, Dec(1000, 0)), LIGHT_SPEED))
    /\ mass' = Div(U, Mul(eps, k_per_mass'))
    /\ D_km' = Div(SphereDiameter(mass', rho), Dec(1000, 0))
    /\ pc' = "v_pass2"
    /\ UNCHANGED <<port, args, arg_count, object_name, planet_name, material_name,
                   has_object, has_atmospheric, planet_type, material_type, U,
                   mode, val, rho, eps, retention, effective_eps, v_class,
                   v_rel, m_class, lookups, out, errout, exit_code, probe, prev, dose, parse>>

\* Mode v, second pass: retention at the first diameter, mass and diameter
\* again.
ModeV_Pass2 ==
    /\ pc = "v_pass2"
    /\ retention' = Retention(D_km, planet_type, material_type)
    /\ lookups' = Append(lookups, D_km)
    /\ effective_eps' = EffectiveEps(eps, retention')
    /\ mass' = Div(U, Mul(effective_eps', k_per_mass))
    /\ D_km' = Div(SphereDiameter(mass', rho), Dec(1000, 0))
    /\ pc' = "v_pass3"
    /\ UNCHANGED <<port, args, arg_count, object_name, planet_name, material_name,
                   has_object, has_atmospheric, planet_type, material_type, U,
                   mode, val, rho, eps, k_per_mass, v_class, v_rel, m_class,
                   out, errout, exit_code, probe, prev, dose, parse>>

\* A third pass that keeps the retention of the second pass: no new lookup.
ModeV_Pass3Skipped ==
    /\ pc = "v_pass3"
    /\ m_class' = LET v == Mul(val, Dec(1000, 0))
                  IN Div(Mul(Dec(2, 0), U), Mul(Mul(effective_eps, v), v))
    /\ pc' = "v_report"
    /\ UNCHANGED <<port, args, arg_count, object_name, planet_name, material_name,
                   has_object, has_atmospheric, planet_type, material_type, U,
                   mode, val, rho, eps, D_km, retention, effective_eps, mass,
                   k_per_mass, v_class, v_rel, lookups,
                   out, errout, exit_code, probe, prev, dose, parse>>

\* Mode v, third pass: retention at the second diameter, the final mass and
\* diameter (D / 1000.0 as printed), and the classical mass.
ModeV_Pass3 ==
    /\ pc = "v_pass3"
    /\ retention' = Retention(D_km, planet_type, material_type)
    /\ lookups' = Append(lookups, D_km)
    /\ effective_eps' = EffectiveEps(eps, retention')
    /\ mass' = Div(U, Mul(effective_eps', k_per_mass))
    /\ D_km' = Div(SphereDiameter(mass', rho), Dec(1000, 0))
    /\ m_class' = LET v == Mul(val, Dec(1000, 0))
                  IN Div(Mul(Dec(2, 0), U), Mul(Mul(effective_eps', v), v))
    /\ pc' = "v_report"
    /\ UNCHANGED <<port, args, arg_count, object_name, planet_name, material_name,
                   has_object, has_atmospheric, planet_type, material_type, U,
                   mode, val, rho, eps, k_per_mass, v_class, v_rel,
                   out, errout, exit_code, probe, prev, dose, parse>>

ModeV_Report ==
    /\ pc = "v_report"
    /\ out' = out \o (IF Given(material_name) THEN <<"MATERIAL">> ELSE <<>>)
                  \o <<"INPUT", "TARGET", "RESULT",
                       "Classical mass (for reference)",
                       "Minimum equivalent diameter",
                       "NOTE: Any impactor">>
    /\ exit_code' = 0
    /\ pc' = "done"
    /\ UNCHANGED <<port, args, arg_count, object_name, planet_name, material_name,
                   has_object, has_atmospheric, planet_type, material_type, U,
                   mode, val, rho, eps, D_km, retention, effective_eps, mass,
                   k_per_mass, v_class, v_rel, m_class, lookups, errout,
                   probe, prev, dose, parse>>

Next ==
    \/ Classify
    \/ Resolve
    \/ Dispatch
    \/ Validate
    \/ ModeM_Lookup
    \/ ModeM_Report
    \/ ModeD_Lookup
    \/ ModeD_Report
    \/ ModeV_Header
    \/ ModeV_Pass1
    \/ ModeV_Pass2
    \/ ModeV_Pass3
    \/ ModeV_Report

Spec == Init /\ [][Next]_vars

(***************************************************************************)
(* The lookup functions called directly.  A behaviour fixes a planet code  *)
(* and a material code (any int) and makes up to two calls, of             *)
(* atmospheric_retention and AtmosphericRetention at a diameter, of        *)
(* atmospheric_retention for the three materials, or of the binding energy *)
(* functions; probe is the last call and prev the call before it.          *)
(***************************************************************************)
MaxPlanetCode == 10
MaxMaterialCode == 3
ProbeDecades == 5

PlanetCodes == -1..MaxPlanetCode
MaterialCodes == -1..MaxMaterialCode

\* Diameters (km): on every threshold of the tables, between them, below
\* the smallest and above the largest; zero, a negative one, infinity, NaN.
ProbeDiameters ==
    {Dec(m, e) : m \in {1000, 1500, 2000, 3000, 5000, 9999},
                 e \in -7..(ProbeDecades - 7)}
    \cup {Zero, Dec(-1, 0), Inf, NaN}

InitLookup ==
    /\ port = "C"
    /\ args = <<>>
    /\ pc = "idle"
    /\ Fresh
    /\ probe \in {[NoProbe EXCEPT !.planet = p, !.material = m] :
                     p \in PlanetCodes, m \in MaterialCodes}
    /\ prev = NoProbe
    /\ dose = NoDose /\ parse = NoParse

Lookup(d) ==
    /\ pc = "idle"
    /\ prev.fn = "none"
    /\ probe' = [NoProbe EXCEPT
                    !.fn = "retention", !.d = d,
                    !.planet = probe.planet, !.material = probe.material,
                    !.r_C = atmospheric_retention(d, probe.planet, probe.material),
                    !.r_QB = AtmosphericRetention(d, probe.planet, probe.material)]
    /\ prev' = probe
    /\ UNCHANGED <<runvars, dose, parse>>

\* atmospheric_retention at one diameter for the three materials.
LookupMaterials(d) ==
    /\ pc = "idle"
    /\ prev.fn = "none"
    /\ probe' = [NoProbe EXCEPT
                    !.fn = "materials", !.d = d,
                    !.planet = probe.planet, !.material = probe.material,
                    !.iron = atmospheric_retention(d, probe.planet, MATERIAL_IRON),
                    !.stony = atmospheric_retention(d, probe.planet, MATERIAL_STONY),
                    !.cometary = atmospheric_retention(d, probe.planet, MATERIAL_COMETARY)]
    /\ prev' = probe
    /\ UNCHANGED <<runvars, dose, parse>>

BindingEnergy ==
    /\ pc = "idle"
    /\ prev.fn = "none"
    /\ probe' = [NoProbe EXCEPT
                    !.fn = "binding",
                    !.planet = probe.planet, !.material = probe.material,
                    !.r_C = get_planetary_binding_energy(probe.planet),
                    !.r_QB = GetPlanetaryBindingEnergy(probe.planet)]
    /\ prev' = probe
    /\ UNCHANGED <<runvars, dose, parse>>

NextLookup ==
    \/ \E d \in ProbeDiameters : Lookup(d)
    \/ \E d \in ProbeDiameters : LookupMaterials(d)
    \/ BindingEnergy

SpecLookup == InitLookup /\ [][NextLookup]_vars

(***************************************************************************)
(* Properties of the retention tables (under SpecLookup).                  *)
(***************************************************************************)
BothRetention ==
    /\ probe.fn = "retention" /\ prev.fn = "retention"
    /\ prev.planet = probe.planet /\ prev.material = probe.material

\* C1: for a fixed (planet, material) and two diameters d1 < d2,
\* atmospheric_retention(d1) <= atmospheric_retention(d2).
C1_Monotone ==
    (BothRetention /\ Lt(prev.d, probe.d)) => Le(prev.r_C, probe.r_C)

\* Two lookups for iron on Earth, the second at a larger diameter and with a
\* larger result.
C1_Witness ==
    /\ BothRetention /\ Lt(prev.d, probe.d)
    /\ probe.planet = PLANET_EARTH /\ probe.material = MATERIAL_IRON
    /\ prev.r_C = Dec(80, -2) /\ probe.r_C = Dec(90, -2)

InUnitInterval(r) == Le(Zero, r) /\ Le(r, One)

\* C2: for every diameter, every planet code and every material code (codes
\* outside the enumerations included), atmospheric_retention and
\* AtmosphericRetention return r with 0 <= r <= 1.
C2_UnitInterval ==
    probe.fn = "retention" => InUnitInterval(probe.r_C) /\ InUnitInterval(probe.r_QB)

\* A lookup on a threshold of Earth's table with a material code outside
\* the enumeration.
C2_Witness ==
    /\ probe.fn = "retention"
    /\ probe.planet = PLANET_EARTH
    /\ probe.material \notin {MATERIAL_STONY, MATERIAL_IRON, MATERIAL_COMETARY}
    /\ probe.d = Dec(1, -2)
    /\ probe.r_C = Dec(10, -2)

ModelledPlanets == PLANET_EARTH..PLANET_MOON

\* C3: for the vacuum sentinel and for every planet code outside the
\* modelled set, the result is exactly 1.0, whatever the diameter and the
\* material.
C3_NoAtmosphereIsOne ==
    (probe.fn = "retention" /\ probe.planet \notin ModelledPlanets)
        => probe.r_C = One /\ probe.r_QB = One

\* A lookup for a planet code below the enumeration, at a diameter where
\* every table of a modelled planet gives less than 1.
C3_Witness ==
    /\ probe.fn = "retention"
    /\ probe.planet < PLANET_EARTH
    /\ probe.d = Dec(1, -4)
    /\ probe.r_C = One

\* The largest value of a band list.
MaxValue(b) ==
    CHOOSE v \in {b.val[i] : i \in 1..Len(b.val)} :
        \A i \in 1..Len(b.val) : Le(b.val[i], v)

\* C4: the thresholds of every band list are strictly increasing in the
\* order they are tested, and at or above the last threshold
\* atmospheric_retention returns the largest value of the list.
C4_ThresholdsAndTop ==
    LET b == BandList(probe.planet, probe.material)
    IN /\ \A i \in 1..(Len(b.th) - 1) : Lt(b.th[i], b.th[i + 1])
       /\ (probe.fn = "retention" /\ Len(b.th) > 0 /\ Ge(probe.d, b.th[Len(b.th)]))
              => probe.r_C = MaxValue(b)

\* A lookup for iron on Earth on the last threshold (0.20 km).
C4_Witness ==
    /\ probe.fn = "retention"
    /\ probe.planet = PLANET_EARTH /\ probe.material = MATERIAL_IRON
    /\ probe.d = Dec(20, -2)
    /\ probe.r_C = Dec(95, -2)

\* C7: for every modelled planet and every diameter, retention for iron is
\* at least that for stony, and that for stony at least that for cometary.
C7_MaterialOrder ==
    (probe.fn = "materials" /\ probe.planet \in ModelledPlanets)
        => Ge(probe.iron, probe.stony) /\ Ge(probe.stony, probe.cometary)

\* README, Planetary Binding Energies: the value (J) listed for a body.
ReadmeBindingEnergy(body) ==
    CASE body = PLANET_EARTH -> Dec(249, 30)
      [] body = PLANET_VENUS -> Dec(157, 30)
      [] body = PLANET_MARS -> Dec(487, 28)
      [] body = PLANET_JUPITER -> Dec(206, 34)
      [] body = PLANET_SATURN -> Dec(222, 33)
      [] body = PLANET_URANUS -> Dec(119, 32)
      [] body = PLANET_NEPTUNE -> Dec(169, 32)
      [] body = PLANET_MOON -> Dec(123, 27)
      [] body = PLANET_PLUTO -> Dec(285, 25)

\* C9: the binding energy is strictly positive and the same at every call;
\* it is Earth's 2.49e32 J for the vacuum sentinel and for every code
\* outside the enumeration, and the README's value for the nine bodies.
C9_BindingEnergy ==
    probe.fn = "binding" =>
        /\ Lt(Zero, probe.r_C) /\ IsFin(probe.r_C)
        /\ probe.r_C = (IF probe.planet \in ModelledPlanets
                        THEN ReadmeBindingEnergy(probe.planet)
                        ELSE ReadmeBindingEnergy(PLANET_EARTH))
        /\ probe.r_QB = probe.r_C
        /\ prev.fn = "binding" => prev.r_C = probe.r_C

\* The binding energy asked twice for a code above the enumeration.
C9_Witness ==
    /\ probe.fn = "binding" /\ prev.fn = "binding"
    /\ probe.planet > PLANET_VACUUM
    /\ probe.r_C = Dec(249, 30)

\* C20: the C and QB64 ports of the retention model are equivalent: for
\* every diameter, planet and material, AtmosphericRetention returns what
\* atmospheric_retention returns.
C20_PortsAgree ==
    probe.fn = "retention" => probe.r_QB = probe.r_C

(***************************************************************************)
(* Properties of a run of main (under Spec).                               *)
(***************************************************************************)
\* The diameter of the last retention lookup of the run.
LastLookup == lookups[Len(lookups)]

C6_ContributorTest ==
    (args = ContributorTest /\ pc = "done") =>
        Le(Dec(75, -2), retention) /\ Le(retention, Dec(85, -2))

\* The names usage documents, in the order of their codes.
PlanetNames ==
    <<<<"e", "a", "r", "t", "h">>, <<"m", "a", "r", "s">>,
      <<"v", "e", "n", "u", "s">>, <<"j", "u", "p", "i", "t", "e", "r">>,
      <<"s", "a", "t", "u", "r", "n">>, <<"u", "r", "a", "n", "u", "s">>,
      <<"n", "e", "p", "t", "u", "n", "e">>, <<"p", "l", "u", "t", "o">>,
      <<"m", "o", "o", "n">>, <<"v", "a", "c", "u", "u", "m">>>>

MaterialNames ==
    <<<<"s", "t", "o", "n", "y">>, <<"i", "r", "o", "n">>,
      <<"c", "o", "m", "e", "t", "a", "r", "y">>>>

Lower(name) == [i \in 1..Len(name) |-> tolower(name[i])]

\* Is name (as main holds it) one of names, in any case?
Recognised(name, names) ==
    /\ Given(name)
    /\ \E i \in 1..Len(names) : Lower(name) = names[i]

CodeOf(name, names) == (CHOOSE i \in 1..Len(names) : Lower(name) = names[i]) - 1

\* C8: once the names are resolved, a recognised name (in any case) has
\* given its own code; an absent or unrecognised planet has given Earth and
\* the binding energy 2.49e32 J, an absent or unrecognised material stony;
\* and nothing was printed and the run goes on.
C8_NamesResolve ==
    pc \notin {"classify", "resolve"} =>
        /\ planet_type = (IF Recognised(planet_name, PlanetNames)
                          THEN CodeOf(planet_name, PlanetNames)
                          ELSE PLANET_EARTH)
        /\ material_type = (IF Recognised(material_name, MaterialNames)
                            THEN CodeOf(material_name, MaterialNames)
                            ELSE MATERIAL_STONY)
        /\ ~Recognised(planet_name, PlanetNames) => U = Dec(249, 30)
        /\ pc = "dispatch" => out = <<>> /\ errout = <<>> /\ exit_code = -1

\* The C program has resolved the planet "Mars" and the material "iron" and
\* is about to look at the mode.
C8_Witness ==
    /\ port = "C" /\ pc = "dispatch"
    /\ planet_name = <<"M", "a", "r", "s">> /\ planet_type = PLANET_MARS
    /\ material_type = MATERIAL_IRON

HeaderAndResultLines == {"OBJECT", "PLANET", "MATERIAL", "INPUT", "TARGET", "RESULT"}

\* The numbers the mode has read, one of them <= 0.
ReadNotPositive ==
    /\ val # Unset
    /\ \/ Le(val, Zero)
       \/ mode \in {"D", "V"} /\ Le(rho, Zero)
       \/ Le(eps, Zero)

\* C10: in each mode, when a number the mode has read (mass, diameter,
\* speed, density or epsilon) is <= 0, the run has ended with "Inputs must be
\* positive." and with no retention lookup, no computed value and no OBJECT,
\* PLANET, MATERIAL, INPUT, TARGET or RESULT line.
C10_InputsMustBePositive ==
    ReadNotPositive =>
        /\ pc = "done"
        /\ (IF port = "C" THEN errout ELSE out) = <<"Inputs must be positive.">>
        /\ lookups = <<>> /\ retention = Unset /\ effective_eps = Unset
        /\ mass = Unset /\ v_class = Unset /\ v_rel = Unset /\ k_per_mass = Unset
        /\ \A i \in 1..Len(out) : out[i] \notin HeaderAndResultLines

\* Speed mode with a positive speed and density and an epsilon <= 0.
C10_Witness ==
    /\ pc = "done" /\ mode = "V" /\ port = "C"
    /\ Lt(Zero, val) /\ Lt(Zero, rho) /\ Le(eps, Zero)
    /\ has_atmospheric = 1

\* The lines a run has printed, on either stream.
Printed(line) ==
    \/ \E i \in 1..Len(out) : out[i] = line
    \/ \E i \in 1..Len(errout) : errout[i] = line

\* C11: in speed mode a speed at or above light speed fails before anything
\* else happens: when "Speed must be < c." has been printed, no OBJECT, PLANET
\* or other header or result line has been, and nothing has been computed.
C11_SpeedCheckFirst ==
    Printed("Speed must be < c.") =>
        /\ \A i \in 1..Len(out) : out[i] \notin HeaderAndResultLines
        /\ lookups = <<>> /\ mass = Unset /\ k_per_mass = Unset

\* A run has succeeded: it is over and has printed its RESULT line.
Succeeded == pc = "done" /\ Printed("RESULT")

\* The number of CONCLUSION lines printed.
Conclusions ==
    Cardinality({i \in 1..Len(out) :
        out[i] \in {"CONCLUSION: DESTROYED", "CONCLUSION: SURVIVES"}})

\* The relativistic velocity (m/s) of a result: v_rel in mass and diameter
\* modes, the given speed in speed mode.
ResultSpeed == IF mode = "V" THEN Mul(val, Dec(1000, 0)) ELSE v_rel

\* Exactly one conclusion: DESTROYED when the speed is strictly below
\* 0.99*c, SURVIVES when it is at or above.
ClassifiedOnce ==
    /\ Conclusions = 1
    /\ Printed("CONCLUSION: DESTROYED")
           <=> Lt(ResultSpeed, Mul(Dec(99, -2), LIGHT_SPEED))
    /\ Printed("CONCLUSION: SURVIVES")
           <=> Ge(ResultSpeed, Mul(Dec(99, -2), LIGHT_SPEED))

C13_EffectiveEfficiency ==
    Succeeded =>
        /\ effective_eps = Mul(eps, retention)
        /\ Le(effective_eps, eps)
        /\ mode \in {"M", "D"} =>
               /\ v_class = ClassicalSpeed(U, Mul(eps, retention), mass)
               /\ v_rel = RelativisticSpeed(U, Mul(eps, retention), mass)
        /\ mode = "V" =>
               /\ mass = Div(U, Mul(Mul(eps, retention), k_per_mass))
               /\ m_class = Div(Mul(Dec(2, 0), U),
                                Mul(Mul(Mul(eps, retention), Mul(val, Dec(1000, 0))),
                                    Mul(val, Dec(1000, 0))))

\* A speed-mode run whose retention is below 1.
C13_Witness ==
    /\ Succeeded /\ mode = "V"
    /\ Lt(retention, One)
    /\ Lt(effective_eps, eps)

\* The tolerance of a round trip through the 4-digit arithmetic: each of
\* the dozen operations between the mass and the mass recomputed from the
\* diameter rounds to 4 digits, and the cube triples what the cube root lost.
RoundTripTolerance == Dec(1, -2)

\* a is within the tolerance of b (b > 0), or both are the same infinity.
Within(a, b) ==
    \/ a = b
    \/ /\ IsFin(a) /\ IsFin(b)
       /\ Le(Sub(a, b), Mul(RoundTripTolerance, b))
       /\ Le(Sub(b, a), Mul(RoundTripTolerance, b))

\* C14: speed mode's output is stable under a fourth pass: the mass that
\* diameter mode computes from the output diameter and the same density,
\* rho * (4/3) * PI * (D/2)^3, is the output mass within tolerance.
C14_FourthPass ==
    (Succeeded /\ mode = "V") => Within(SphereMass(D_km, rho), mass)

\* A speed-mode run on Earth with an iron impactor, finished with a finite
\* mass and diameter.
C14_Witness ==
    /\ Succeeded /\ mode = "V"
    /\ planet_type = PLANET_EARTH /\ material_type = MATERIAL_IRON
    /\ IsFin(mass) /\ Lt(Zero, mass) /\ IsFin(D_km) /\ Lt(Zero, D_km)

(***************************************************************************)
(* Diameter mode run twice.  The second run starts as a process starts:    *)
(* the locals that main initialises have their initial values, every other *)
(* local holds whatever the memory holds, here what the first run left.    *)
(***************************************************************************)
RerunLines ==
    {<<ModeD, x>> \o t \o n \o a :
        x \in {<<"1", ".", "0">>, <<"0", ".", "0", "0", "5">>},
        t \in {<<>>, <<<<"7", "8", "0", "0">>>>,
               <<<<"7", "8", "0", "0">>, <<"0", ".", "2", "5">>>>},
        n \in NameTails,
        a \in {<<>>, <<<<"e", "a", "r", "t", "h">>, <<"i", "r", "o", "n">>>>,
               <<<<"p", "l", "u", "t", "o">>, <<"s", "t", "o", "n", "y">>>>}}

InitRerun ==
    /\ port \in Ports
    /\ args \in RerunLines
    /\ pc = "classify"
    /\ Fresh
    /\ probe = NoProbe /\ prev = NoProbe
    /\ dose = NoDose /\ parse = NoParse

\* The first run is over; its inputs as read and its results are noted in
\* prev, and the program is started again on a command line.
Restart ==
    /\ pc = "done" /\ prev.fn = "none"
    /\ prev' = [fn |-> "run", val |-> val, rho |-> rho, eps |-> eps,
                planet_type |-> planet_type, material_type |-> material_type,
                has_object |-> has_object,
                retention |-> retention, mass |-> mass,
                v_class |-> v_class, v_rel |-> v_rel, out |-> out]
    /\ args' \in RerunLines
    /\ pc' = "classify"
    /\ arg_count' = 0
    /\ object_name' = (IF port = "C" THEN NULL ELSE <<>>)
    /\ planet_name' = object_name' /\ material_name' = object_name'
    /\ has_object' = 0 /\ has_atmospheric' = 0
    /\ planet_type' = PLANET_EARTH /\ material_type' = MATERIAL_STONY
    /\ lookups' = <<>> /\ out' = <<>> /\ errout' = <<>> /\ exit_code' = -1
    /\ UNCHANGED <<port, U, mode, val, rho, eps, D_km, retention, effective_eps,
                   mass, k_per_mass, v_class, v_rel, m_class, probe, dose, parse>>

NextRerun ==
    \/ Classify
    \/ Resolve
    \/ Dispatch
    \/ Validate
    \/ ModeD_Lookup
    \/ ModeD_Report
    \/ Restart

SpecRerun == InitRerun /\ [][NextRerun]_vars

\* The second run has succeeded as the first did, on the same diameter,
\* density, efficiency, planet and material as the first read.
SameInputsTwice ==
    /\ prev.fn = "run" /\ Succeeded
    /\ \E i \in 1..Len(prev.out) : prev.out[i] = "RESULT"
    /\ val = prev.val /\ rho = prev.rho /\ eps = prev.eps
    /\ planet_type = prev.planet_type /\ material_type = prev.material_type

\* The CONCLUSION lines among lines.
ConclusionsOf(lines) ==
    SelectSeq(lines, LAMBDA l : l \in {"NOTE: v_rel ~ c", "CONCLUSION: DESTROYED",
                                       "CONCLUSION: SURVIVES"})

\* C15: diameter mode is a pure function of its inputs: two runs with the
\* same diameter, density, efficiency, planet and material give the same
\* retention, mass, velocities and classification, whatever the first run
\* left behind.
C15_DiameterModePure ==
    SameInputsTwice =>
        /\ retention = prev.retention
        /\ mass = prev.mass
        /\ v_class = prev.v_class /\ v_rel = prev.v_rel
        /\ ConclusionsOf(out) = ConclusionsOf(prev.out)

\* Two runs on the same inputs, the first with an object name and the second
\* without, with a retention below 1.
C15_Witness ==
    /\ SameInputsTwice
    /\ prev.has_object = 1 /\ has_object = 0
    /\ Lt(retention, One)

\* The energy per unit mass behind v_rel in mass and diameter modes, and its
\* gamma = 1 + e/c^2.
EnergyPerMass == Div(Div(U, effective_eps), mass)
GammaOfRun == Add(One, Div(Div(U, effective_eps),
                           Mul(Mul(mass, LIGHT_SPEED), LIGHT_SPEED)))

\* C16: the relativistic velocity computed from a finite non-negative energy
\* per unit mass satisfies 0 <= v < c: it never equals c and never exceeds
\* it, however large the energy per mass.  Stated for the runs with
\* gamma >= 10^9, where 1/gamma^2 is below half a unit in the last place of
\* 1.0 in the program's doubles as it is in the 4-digit arithmetic here.
C16_BelowLightSpeed ==
    (/\ Succeeded /\ mode \in {"M", "D"}
     /\ IsFin(EnergyPerMass) /\ Le(Zero, EnergyPerMass)
     /\ Ge(GammaOfRun, Dec(1, 9)))
        => Le(Zero, v_rel) /\ Lt(v_rel, LIGHT_SPEED)

\* C17: every failing run (too few arguments, a non-positive input, a speed
\* >= c, an unknown mode letter) prints a usage message and ends with a
\* non-zero exit status, in the C program and in the QB64 program alike.
C17_FailuresPrintUsage ==
    (pc = "done" /\ ~Printed("RESULT")) =>
        Printed("Usage:") /\ exit_code # 0

\* What the documented usage makes of a command line:
\*   <mode> <value> [rho] [epsilon] [name] [planet material]   (d and v)
\*   m <mass_kg> [epsilon] [name] [planet material]
\* nums is the number of optional numeric parameters supplied, rest the
\* arguments after them.
UsageNums(a) ==
    LET most == IF ModeOf(a[1]) = "M" THEN 1 ELSE 2
    IN IF Len(a) >= 3 /\ ~NotANumber(a[3])
       THEN (IF most = 2 /\ Len(a) >= 4 /\ ~NotANumber(a[4]) THEN 2 ELSE 1)
       ELSE 0

UsageRest(a) == SubSeq(a, 3 + UsageNums(a), Len(a))

\* a matches the documented usage.
Documented(a) ==
    /\ Len(a) >= 2
    /\ ModeOf(a[1]) \in {"M", "D", "V"}
    /\ ~NotANumber(a[2])
    /\ Len(UsageRest(a)) <= 3
    /\ \A i \in 1..Len(UsageRest(a)) : NotANumber(UsageRest(a)[i])

\* The value of a numeric argument, as the port reads one.
NumberOf(arg) == IF port = "C" THEN atof(arg) ELSE VAL(arg)

\* The mode has read its numbers.
NumbersRead == val # Unset

\* C18: in every mode, an optional numeric parameter the command line
\* supplies (density in d and v modes, epsilon in all modes) is the value
\* the computation uses, whether or not a name, planet and material follow.
C18_SuppliedNumbersUsed ==
    (Documented(args) /\ NumbersRead) =>
        /\ (mode = "M" /\ UsageNums(args) >= 1) => eps = NumberOf(args[3])
        /\ (mode \in {"D", "V"} /\ UsageNums(args) >= 1) => rho = NumberOf(args[3])
        /\ (mode \in {"D", "V"} /\ UsageNums(args) >= 2) => eps = NumberOf(args[4])

\* name is the string main holds in planet_name, material_name or
\* object_name.
Holds(var, name) == Given(var) /\ var = name

\* C19: for every command line that matches the documented usage, a planet
\* and material given as the last two arguments are the target body and
\* the impactor material, the name is the object name, and a parameter
\* omitted before a name keeps its default: the name is never read as a
\* number.
C19_NamesNotNumbers ==
    (Documented(args) /\ NumbersRead) =>
        LET rest == UsageRest(args)
            n == Len(rest)
        IN /\ n >= 2 => /\ Holds(planet_name, rest[n - 1])
                        /\ Holds(material_name, rest[n])
           /\ n \in {1, 3} => /\ has_object = 1
                              /\ Holds(object_name, rest[1])
           /\ (n >= 1 /\ mode = "M" /\ UsageNums(args) = 0) => eps = DEFAULT_EPS
           /\ (n >= 1 /\ mode \in {"D", "V"} /\ UsageNums(args) = 0) => rho = DEFAULT_RHO
           /\ (n >= 1 /\ mode \in {"D", "V"} /\ UsageNums(args) <= 1) => eps = DEFAULT_EPS

\* C21: mass mode makes exactly one retention lookup, at the diameter of the
\* sphere of the given mass at the reference density 3000 kg/m^3, and the
\* velocities are computed from the input mass unchanged.
C21_MassModeOneLookup ==
    (Succeeded /\ mode = "M") =>
        /\ lookups = <<Div(Mul(Dec(2, 0),
                               Cbrt(Div(Mul(Dec(3, 0), Div(val, Dec(3000, 0))),
                                        Mul(Dec(4, 0), PI_VAL)))),
                           Dec(1000, 0))>>
        /\ D_km = lookups[1]
        /\ mass = val
        /\ v_class = ClassicalSpeed(U, effective_eps, val)
        /\ v_rel = RelativisticSpeed(U, effective_eps, val)

\* A mass-mode run for an iron impactor on Earth.
C21_Witness ==
    /\ Succeeded /\ mode = "M" /\ Len(lookups) = 1
    /\ planet_type = PLANET_EARTH /\ material_type = MATERIAL_IRON
    /\ Lt(retention, One)

\* The three passes of speed mode, from the requested efficiency alone:
\* mass, then diameter (km) of the sphere of that mass at density rho.
PassMass(efficiency) == Div(U, Mul(efficiency, k_per_mass))
PassDiameterKm(efficiency) ==
    Div(Mul(Dec(2, 0),
            Cbrt(Div(Mul(Dec(3, 0), Div(PassMass(efficiency), rho)),
                     Mul(Dec(4, 0), PI_VAL)))),
        Dec(1000, 0))
Pass2Retention == Retention(PassDiameterKm(eps), planet_type, material_type)
Pass3Retention ==
    Retention(PassDiameterKm(Mul(eps, Pass2Retention)), planet_type, material_type)

\* C23: speed mode always runs the same schedule: (1) mass and diameter from
\* the requested efficiency alone, (2) retention looked up at that diameter,
\* mass and diameter recomputed, (3) retention looked up at the pass-2
\* diameter, mass and diameter recomputed.  It makes exactly two lookups and
\* stops after the third pass whether or not the diameter still changes, and
\* the classical mass computed afterwards leaves the reported mass, diameter
\* and retention alone.
C23_ThreePassSchedule ==
    (mode = "V" /\ pc \in {"v_report", "done"} /\ k_per_mass # Unset) =>
        /\ lookups = <<PassDiameterKm(eps),
                       PassDiameterKm(Mul(eps, Pass2Retention))>>
        /\ retention = Pass3Retention
        /\ effective_eps = Mul(eps, Pass3Retention)
        /\ mass = PassMass(Mul(eps, Pass3Retention))
        /\ D_km = PassDiameterKm(Mul(eps, Pass3Retention))

\* A speed-mode run that stopped while the diameter was still changing.
C23_Witness ==
    /\ Succeeded /\ mode = "V" /\ Len(lookups) = 2
    /\ lookups[1] # lookups[2] /\ D_km # lookups[2]
    /\ IsFin(D_km)

\* C28: in speed mode the reported mass and diameter are never below the
\* first-pass (no-atmosphere) values, and the reported diameter is never
\* above the second-pass diameter.
C28_ReportedBetweenPasses ==
    (Succeeded /\ mode = "V") =>
        /\ Le(PassMass(eps), mass)
        /\ Le(lookups[1], D_km)
        /\ Le(D_km, lookups[2])

\* A speed-mode run whose reported diameter lies strictly between the first
\* and the second diameter.
C28_Witness ==
    /\ Succeeded /\ mode = "V"
    /\ Lt(lookups[1], D_km) /\ Lt(D_km, lookups[2])
    /\ Lt(PassMass(eps), mass)

\* The second of two successful diameter-mode runs.
SecondRun ==
    /\ prev.fn = "run" /\ Succeeded
    /\ \E i \in 1..Len(prev.out) : prev.out[i] = "RESULT"

\* C22: diameter mode looks the retention up exactly once, at the given
\* diameter; the retention depends on the diameter, the planet and the
\* material only, not on the density or the efficiency; the mass is
\* density * (4/3) * pi * (diameter/2)^3 with the diameter taken from km to m.
C22_DiameterModeOneLookup ==
    /\ (Succeeded /\ mode = "D") =>
          /\ lookups = <<val>>
          /\ D_km = val
          /\ retention = Retention(val, planet_type, material_type)
          /\ mass = LET r == Div(Mul(val, Dec(1000, 0)), Dec(2, 0))
                    IN Mul(rho, Mul(Mul(Div(Dec(4, 0), Dec(3, 0)), PI_VAL),
                                    Mul(Mul(r, r), r)))
    /\ (SecondRun /\ val = prev.val /\ planet_type = prev.planet_type
                  /\ material_type = prev.material_type) =>
          retention = prev.retention

\* Two runs at the same diameter on the same planet and material with another
\* density and another efficiency, under an atmosphere that takes something.
C22_Witness ==
    /\ SecondRun /\ val = prev.val /\ planet_type = prev.planet_type
    /\ material_type = prev.material_type
    /\ rho # prev.rho /\ eps # prev.eps
    /\ Lt(retention, One) /\ Len(lookups) = 1

\* What the other port makes of the command line of this run: its
\* classification, with an absent name written <<>> in both ports, and the
\* numbers it reads.
Name(str) == IF str = NULL THEN <<>> ELSE str
OtherClassification ==
    IF port = "C" THEN ClassifyQB(args) ELSE ClassifyC(args)
OtherNumbers ==
    IF port = "C"
    THEN ReadNumbersQB(mode, args, ClassifyQB(args).arg_count)
    ELSE ReadNumbersC(mode, args, ClassifyC(args).has_object)

\* C24: the C and the QB64 program classify every command line identically:
\* the same object name, planet and material, and the same density and
\* epsilon.
C24_PortsClassifyAlike ==
    /\ pc # "classify" =>
          /\ Name(object_name) = Name(OtherClassification.object_name)
          /\ Name(planet_name) = Name(OtherClassification.planet_name)
          /\ Name(material_name) = Name(OtherClassification.material_name)
    /\ NumbersRead => (rho = OtherNumbers.rho /\ eps = OtherNumbers.eps)

\* C25: no solve divides by a zero effective efficiency: for every validated
\* input, in every mode, each effective efficiency used as a divisor is
\* strictly positive.
C25_DivisorPositive ==
    effective_eps # Unset => Lt(Zero, effective_eps)

\* C26: in speed mode, for every validated input, the retention and the
\* effective efficiency after the third pass are strictly positive and the
\* reported mass and diameter are finite.
C26_SpeedModeFinite ==
    (Succeeded /\ mode = "V") =>
        /\ Lt(Zero, retention) /\ Lt(Zero, effective_eps)
        /\ IsFin(mass) /\ IsFin(D_km)

\* C27: the retention speed mode reports is the retention at the diameter it
\* reports.
C27_RetentionAtReportedDiameter ==
    (Succeeded /\ mode = "V") =>
        retention = Retention(D_km, planet_type, material_type)

(***************************************************************************)
(* unbindDose: the C program (unbindDose.c) and the QB64 program           *)
(* (unbindDose.bas).  port tells which program runs, args is the command   *)
(* line, dose holds the locals of main.                                    *)
(***************************************************************************)

\* cos(x) for 0 <= x <= pi, by the power series up to x^16.
Cos(x) ==
    With(Mul(x, x), LAMBDA x2 :
        Sub(One, Mul(Div(x2, Dec(2, 0)),
        Sub(One, Mul(Div(x2, Dec(12, 0)),
        Sub(One, Mul(Div(x2, Dec(30, 0)),
        Sub(One, Mul(Div(x2, Dec(56, 0)),
        Sub(One, Mul(Div(x2, Dec(90, 0)),
        Sub(One, Mul(Div(x2, Dec(132, 0)),
        Sub(One, Mul(Div(x2, Dec(182, 0)),
        Sub(One, Div(x2, Dec(240, 0))))))))))))))))))

\* (F * A * f * cos_theta) / M
calc_dose(F, A, f, M, cos_theta) == Div(Mul(Mul(Mul(F, A), f), cos_theta), M)

\* The threshold of the warning: if (D_upper>8), if (D_lower>8).
LethalDose == Dec(8, 0)

\* COMMAND$: the arguments joined by single spaces.
RECURSIVE CommandString(_)
CommandString(words) ==
    IF Len(words) = 0 THEN <<>>
    ELSE IF Len(words) = 1 THEN words[1]
    ELSE words[1] \o <<" ">> \o CommandString(Tail(words))

\* The variable PRINTi of unbindDose.bas is never assigned.
PRINTi == 0

\* MID$(temp, start, 1): a start below 1 shortens the length by 1 - start.
MID1(temp, start) ==
    IF start < 1 \/ start > Len(temp) THEN <<>> ELSE <<temp[start]>>

\* The inner WHILE of unbindDose.bas: the index after the characters up to
\* the next space.
RECURSIVE WordEnd(_, _)
WordEnd(temp, i) ==
    IF i <= Len(temp) /\ MID1(temp, i) # <<" ">> THEN WordEnd(temp, i + 1) ELSE i

\* The outer WHILE of unbindDose.bas from index i on, found being args(1) to
\* args(arg_count).
RECURSIVE DoseWords(_, _, _)
DoseWords(temp, i, found) ==
    IF i > Len(temp) THEN found
    ELSE IF MID1(temp, PRINTi) # <<" ">>
    THEN DoseWords(temp, WordEnd(temp, i) + 1,
                   Append(found, SubSeq(temp, i, WordEnd(temp, i) - 1)))
    ELSE DoseWords(temp, i + 1, found)

\* args(1 TO arg_count) of unbindDose.bas.
DoseArgsQB(words) ==
    IF Len(CommandString(words)) > 0
    THEN DoseWords(CommandString(words) \o <<" ">>, 1, <<>>)
    ELSE <<>>

\* The eight parameters: argc>k ? atof(argv[k]) : default, and
\* IF arg_count >= k THEN VAL(args(k)) ELSE default.
DoseDefaults ==
    <<Dec(249, 30), Dec(3, -3), Dec(3844, 5), Dec(7, -1), Dec(70, 0), One,
      Dec(75, 0), One>>
DoseParameter(p, words, k) ==
    IF Len(words) >= k
    THEN (IF p = "C" THEN atof(words[k]) ELSE VAL(words[k]))
    ELSE DoseDefaults[k]

\* Command lines of unbindDose.
DoseEnergies ==
    {<<"2", ".", "4", "9", "e", "3", "2">>, <<"1", "e", "2", "4">>,
     <<"1", "e", "2", "5">>}
DoseAngles == {<<"7", "5">>, <<"0">>, <<"6", "0">>, <<"1", "2", "0">>}
DoseTransmissions ==
    {<<"1", ".", "0">>, <<"0", ".", "1">>, <<"0", ".", "0", "1">>, <<"2">>}
DoseLines ==
    {<<>>} \cup {<<e>> : e \in DoseEnergies} \cup
    {<<e, <<"3", "e", "-", "3">>, <<"3", ".", "8", "4", "4", "e", "8">>,
       <<"0", ".", "7">>, <<"7", "0">>, <<"1">>, a>> \o t :
        e \in DoseEnergies, a \in DoseAngles,
        t \in {<<>>} \cup {<<x>> : x \in DoseTransmissions}}

InitDose ==
    /\ port \in Ports
    /\ args \in DoseLines
    /\ pc = "dose_args"
    /\ Fresh
    /\ probe = NoProbe /\ prev = NoProbe
    /\ dose = NoDose /\ parse = NoParse

\* main of unbindDose up to the last parameter.
Dose_Arguments ==
    /\ pc = "dose_args"
    /\ LET words == IF port = "C" THEN args ELSE DoseArgsQB(args)
       IN dose' = [dose EXCEPT
              !.arg_count = Len(words),
              !.E = DoseParameter(port, words, 1),
              !.eta = DoseParameter(port, words, 2),
              !.d = DoseParameter(port, words, 3),
              !.A = DoseParameter(port, words, 4),
              !.M = DoseParameter(port, words, 5),
              !.f = DoseParameter(port, words, 6),
              !.theta_deg = DoseParameter(port, words, 7),
              !.atmos_trans = DoseParameter(port, words, 8)]
    /\ pc' = "dose_compute"
    /\ UNCHANGED <<port, args, arg_count, object_name, planet_name, material_name,
                   has_object, has_atmospheric, planet_type, material_type, U,
                   mode, val, rho, eps, D_km, retention, effective_eps, mass,
                   k_per_mass, v_class, v_rel, m_class, lookups, out, errout,
                   exit_code, probe, prev, parse>>

\* cos_theta, F, F_attenuated, D_upper, D_lower.
Dose_Compute ==
    /\ pc = "dose_compute"
    /\ LET cos_theta == Cos(Div(Mul(dose.theta_deg, PI_VAL), Dec(180, 0)))
           F == Div(Mul(dose.eta, dose.E),
                    Mul(Mul(Mul(Dec(4, 0), PI_VAL), dose.d), dose.d))
           F_attenuated == Mul(F, dose.atmos_trans)
       IN dose' = [dose EXCEPT
              !.F = F,
              !.D_upper = calc_dose(F_attenuated, dose.A, dose.f, dose.M, One),
              !.D_lower = calc_dose(F_attenuated, dose.A, dose.f, dose.M,
                                    cos_theta)]
    /\ pc' = "dose_upper"
    /\ UNCHANGED <<port, args, arg_count, object_name, planet_name, material_name,
                   has_object, has_atmospheric, planet_type, material_type, U,
                   mode, val, rho, eps, D_km, retention, effective_eps, mass,
                   k_per_mass, v_class, v_rel, m_class, lookups, out, errout,
                   exit_code, probe, prev, parse>>

\* The warning tested on the upper dose in both places.
LowerWarningOnUpperDose == Lt(LethalDose, dose.D_upper)

\* if (D_upper>8), if (D_lower>8)
UpperWarning == Lt(LethalDose, dose.D_upper)
LowerWarning == Lt(LethalDose, dose.D_lower)

\* The title, the fluence, the upper dose and its warning.
Dose_PrintUpper ==
    /\ pc = "dose_upper"
    /\ out' = out \o <<"Impact Generated Radiation Dose", "Fluence",
                       "Dose (upper boundary">>
                  \o (IF UpperWarning THEN <<"*** WARNING">> ELSE <<>>)
    /\ pc' = "dose_lower"
    /\ UNCHANGED <<port, args, arg_count, object_name, planet_name, material_name,
                   has_object, has_atmospheric, planet_type, material_type, U,
                   mode, val, rho, eps, D_km, retention, effective_eps, mass,
                   k_per_mass, v_class, v_rel, m_class, lookups, errout,
                   exit_code, probe, prev, dose, parse>>

\* The lower dose and its warning; return 0, SYSTEM 0.
Dose_PrintLower ==
    /\ pc = "dose_lower"
    /\ out' = out \o <<"Dose (lower boundary">>
                  \o (IF LowerWarning THEN <<"*** WARNING">> ELSE <<>>)
    /\ exit_code' = 0
    /\ pc' = "done"
    /\ UNCHANGED <<port, args, arg_count, object_name, planet_name, material_name,
                   has_object, has_atmospheric, planet_type, material_type, U,
                   mode, val, rho, eps, D_km, retention, effective_eps, mass,
                   k_per_mass, v_class, v_rel, m_class, lookups, errout,
                   probe, prev, dose, parse>>

NextDose ==
    \/ Dose_Arguments
    \/ Dose_Compute
    \/ Dose_PrintUpper
    \/ Dose_PrintLower

SpecDose == InitDose /\ [][NextDose]_vars

\* The line after the dose line that begins with words is the warning.
WarnedAfter(words) ==
    \E n \in 1..(Len(out) - 1) : out[n] = words /\ out[n + 1] = "*** WARNING"

ArgsSlots == 25

\* The longest command line has MaxWords one-letter arguments.
MaxWords == 27

\* n arguments "a" separated by single spaces.
RECURSIVE Letters(_)
Letters(n) == IF n = 1 THEN <<"a">> ELSE <<"a", " ">> \o Letters(n - 1)

\* COMMAND$ of the runs checked.
ParseLines ==
    {<<>>,
     <<"m", " ", "1", "e", "9">>,
     <<"m", " ", " ", " ", "1", " ", " ">>,
     <<" ", "d", " ", "1", " ", "\"", "a", " ", " ", "b", "\"", " ", "x">>,
     <<"v", " ", "\"", "\"", " ", "a", "\"", " ", "\"", "b">>,
     <<"\"", "a", " ", "b", "\"", "\"", "c", "\"", "d", " ", "e">>} \cup
    {Letters(n) : n \in (ArgsSlots - 1)..MaxWords}

InitParse ==
    /\ port = "QB64"
    /\ args = <<>>
    /\ pc = "parse_call"
    /\ Fresh
    /\ probe = NoProbe /\ prev = NoProbe
    /\ dose = NoDose
    /\ parse \in {[NoParse EXCEPT !.cmdline = l] : l \in ParseLines}

\* IF LEN(cmd) > 0 THEN arg_count = ParseArgs(cmd, args()), up to the loop.
Parse_Call ==
    /\ pc = "parse_call"
    /\ IF Len(parse.cmdline) > 0
       THEN /\ parse' = [parse EXCEPT !.i = 1, !.count = 0, !.in_quotes = 0,
                                      !.current_arg = <<>>]
            /\ pc' = "parse_loop"
            /\ UNCHANGED arg_count
       ELSE /\ arg_count' = 0
            /\ pc' = "parsed"
            /\ UNCHANGED parse
    /\ UNCHANGED <<port, args, object_name, planet_name, material_name,
                   has_object, has_atmospheric, planet_type, material_type, U,
                   mode, val, rho, eps, D_km, retention, effective_eps, mass,
                   k_per_mass, v_class, v_rel, m_class, lookups, out, errout,
                   exit_code, probe, prev, dose>>

\* count = count + 1 : args(count) = current_arg.  A subscript above the
\* upper bound of the array is run-time error 9; the run ends there, or goes
\* on after the statement when the user chooses to continue.
Store(p, carry_on) ==
    IF p.count + 1 <= ArgsSlots
    THEN [p EXCEPT !.count = p.count + 1,
                   !.args = Append(p.args, p.current_arg)]
    ELSE [p EXCEPT !.count = p.count + 1,
                   !.error = IF carry_on THEN "continued"
                             ELSE "Subscript out of range"]

\* One turn of the WHILE loop: char = MID$(temp, i, 1) with
\* temp = cmdline + " ".
Parse_Char ==
    /\ pc = "parse_loop"
    /\ parse.i <= Len(parse.cmdline) + 1
    /\ \E carry_on \in BOOLEAN :
        LET char == (parse.cmdline \o <<" ">>)[parse.i]
            after == IF char = "\""
                     THEN [parse EXCEPT !.in_quotes = 1 - parse.in_quotes]
                     ELSE IF char = " " /\ parse.in_quotes = 0
                     THEN IF Len(parse.current_arg) > 0
                          THEN [Store(parse, carry_on) EXCEPT !.current_arg = <<>>]
                          ELSE parse
                     ELSE [parse EXCEPT !.current_arg = Append(parse.current_arg, char)]
        IN IF after.error = "Subscript out of range"
           THEN /\ parse' = after
                /\ pc' = "done"
           ELSE /\ parse' = [after EXCEPT !.i = parse.i + 1]
                /\ pc' = "parse_loop"
    /\ UNCHANGED <<port, args, arg_count, object_name, planet_name, material_name,
                   has_object, has_atmospheric, planet_type, material_type, U,
                   mode, val, rho, eps, D_km, retention, effective_eps, mass,
                   k_per_mass, v_class, v_rel, m_class, lookups, out, errout,
                   exit_code, probe, prev, dose>>

\* After the loop: the final argument if it exists, ParseArgs = count, and
\* the assignment to arg_count in the main program.
Parse_Return ==
    /\ pc = "parse_loop"
    /\ parse.i > Len(parse.cmdline) + 1
    /\ \E carry_on \in BOOLEAN :
        LET after == IF Len(parse.current_arg) > 0
                     THEN Store(parse, carry_on) ELSE parse
        IN /\ parse' = after
           /\ IF after.error = "Subscript out of range"
              THEN pc' = "done" /\ UNCHANGED arg_count
              ELSE pc' = "parsed" /\ arg_count' = after.count
    /\ UNCHANGED <<port, args, object_name, planet_name, material_name,
                   has_object, has_atmospheric, planet_type, material_type, U,
                   mode, val, rho, eps, D_km, retention, effective_eps, mass,
                   k_per_mass, v_class, v_rel, m_class, lookups, out, errout,
                   exit_code, probe, prev, dose>>

NextParse ==
    \/ Parse_Call
    \/ Parse_Char
    \/ Parse_Return

SpecParse == InitParse /\ [][NextParse]_vars

\* The arguments of a command line s as the documentation describes them:
\* the separators are the spaces with an even number of quote characters
\* before them, the arguments are the longest stretches without a separator,
\* without their quote characters, those that are not empty.
Separator(s, n) ==
    /\ s[n] = " "
    /\ Cardinality({k \in 1..(n - 1) : s[k] = "\""}) % 2 = 0
Stretches(s) ==
    {r \in (1..Len(s)) \X (1..Len(s)) :
        /\ r[1] <= r[2]
        /\ \A n \in r[1]..r[2] : ~Separator(s, n)
        /\ r[1] = 1 \/ Separator(s, r[1] - 1)
        /\ r[2] = Len(s) \/ Separator(s, r[2] + 1)}
Unquoted(s, r) == SelectSeq(SubSeq(s, r[1], r[2]), LAMBDA ch : ch # "\"")
ExpectedArgs(s) ==
    LET R == {r \in Stretches(s) : Len(Unquoted(s, r)) > 0}
    IN [k \in 1..Cardinality(R) |->
           Unquoted(s, CHOOSE r \in R :
                          Cardinality({q \in R : q[1] < r[1]}) = k - 1)]

\* The part of C30 about the arguments found: when ParseArgs has returned
\* without a run-time error, the arguments stored are the expected ones.
ParsedAsExpected ==
    (pc = "parsed" /\ parse.error = "") =>
        /\ parse.args = ExpectedArgs(parse.cmdline)
        /\ arg_count = Len(parse.args)

\* C30: ParseArgs splits the command line at the spaces outside double
\* quotes: a quoted span stays one argument, the quote characters are
\* removed, runs of spaces give no empty arguments, the count returned is the
\* number of arguments stored, and the count never exceeds the 25 slots of
\* the args array.
C30_ParseArgs ==
    /\ pc = "parsed" =>
          /\ parse.args = ExpectedArgs(parse.cmdline)
          /\ arg_count = Len(parse.args)
    /\ parse.count <= ArgsSlots

====
